---------------------------- MODULE Spec2Model ----------------------------
(***************************************************************************)
(* Model of src/app.py: a Telegram bot that keeps a four-level catalog     *)
(* (Category > Subcategory > Topic > Subtopic), notes, tasks and time logs *)
(* in Notion databases.  One action per conversation handler; the remote   *)
(* store, the per-user session dictionary (ctx.user_data) and the          *)
(* ConversationHandler state of each user are the variables.               *)
(*                                                                         *)
(* Text is a sequence of characters (one-character strings).  A button     *)
(* label of the bot is one opaque symbol: the handlers only ever compare   *)
(* a label for equality, they never look inside one.                       *)
(***************************************************************************)
EXTENDS Integers, Sequences, FiniteSets, TLC

\* ------------------------------------------------------------------ bounds
\* Updates (messages and commands) a run of the model processes.
MaxUpdates == 8
\* Records the catalog database may hold.
MaxNodes == 5
\* Note records the model lets commits create.
MaxNotes == 1
\* Task / time-log records the model lets the workflows create.
MaxRecords == 1
\* Entries (text lines plus files) one capture may buffer.
MaxFrags == 3
\* Characters of an enumerated duration input.
MaxDurLen == 3

\* ------------------------------------------------------- program constants
\* text[:1800] of the note body
BODY_LIMIT == 1800
\* [:60] of the derived title
TITLE_CUT == 60
\* title[:200] of the Name property
NAME_LIMIT == 200
\* [:10] of parse_hashtags and len(uniq) >= 10 of the multi-select
TAG_LIMIT == 10
\* t[:50] of a multi-select option name
TAG_NAME_LIMIT == 50
\* page_size of the catalog queries
PAGE_SIZE == 100

\* -------------------------------------------------------------- characters
UpperSeq == <<"A","B","C","D","E","F","G","H","I","J","K","L","M",
              "N","O","P","Q","R","S","T","U","V","W","X","Y","Z">>
LowerSeq == <<"a","b","c","d","e","f","g","h","i","j","k","l","m",
              "n","o","p","q","r","s","t","u","v","w","x","y","z">>
DigitSeq == <<"0","1","2","3","4","5","6","7","8","9">>

Range(s) == {s[i] : i \in 1..Len(s)}
IndexOf(s, c) == CHOOSE i \in 1..Len(s) : s[i] = c

Uppers == Range(UpperSeq)
Lowers == Range(LowerSeq)
Digits == Range(DigitSeq)
IsUpper(c) == c \in Uppers
IsLower(c) == c \in Lowers
IsDigit(c) == c \in Digits
\* str.strip() with no argument strips whitespace
IsSpace(c) == c \in {" ", "\n", "\t"}
\* \w of the re module: letters, digits and the underscore.  An opaque symbol
\* (a label) stands for letters.
IsWord(c)  == ~(c \in {" ", "\n", "\t", "#", ":", ".", "/", "-", "!"})

\* The code point of a character; Python compares strings by code point.
Ord(c) ==
  IF IsUpper(c) THEN 64 + IndexOf(UpperSeq, c)
  ELSE IF IsLower(c) THEN 96 + IndexOf(LowerSeq, c)
  ELSE IF IsDigit(c) THEN 47 + IndexOf(DigitSeq, c)
  ELSE CASE c = "\t" -> 9
         [] c = "\n" -> 10
         [] c = " "  -> 32
         [] c = "!"  -> 33
         [] c = "#"  -> 35
         [] c = "-"  -> 45
         [] c = "."  -> 46
         [] c = "/"  -> 47
         [] c = ":"  -> 58
         [] c = "_"  -> 95
         [] OTHER    -> 1040

LowerChar(c) == IF IsUpper(c) THEN LowerSeq[IndexOf(UpperSeq, c)] ELSE c
\* str.lower()
Lower(s) == [i \in 1..Len(s) |-> LowerChar(s[i])]

Min(S) == CHOOSE x \in S : \A y \in S : x <= y
Max(S) == CHOOSE x \in S : \A y \in S : y <= x

\* s[:n]
Take(s, n) == IF Len(s) <= n THEN s ELSE SubSeq(s, 1, n)

\* str.strip(chars): drop the leading and the trailing characters that are in cs
StripChars(s, cs) ==
  LET lead  == Cardinality({i \in 1..Len(s) : \A j \in 1..i : s[j] \in cs})
      trailing == Cardinality({i \in 1..Len(s) : \A j \in i..Len(s) : s[j] \in cs})
  IN  IF lead = Len(s) THEN <<>> ELSE SubSeq(s, lead + 1, Len(s) - trailing)
\* str.strip()
Strip(s) == StripChars(s, {" ", "\n", "\t"})

\* a < b for two strings, by code point, as Python orders str
StrLess(a, b) ==
  \E k \in 1..(Len(a) + 1) :
     /\ k <= Len(b)
     /\ \A i \in 1..(k - 1) : a[i] = b[i]
     /\ (k = Len(a) + 1 \/ Ord(a[k]) < Ord(b[k]))
StrLeq(a, b) == a = b \/ StrLess(a, b)

\* str.endswith(suffix)
EndsWith(s, suf) ==
  Len(s) >= Len(suf) /\ SubSeq(s, Len(s) - Len(suf) + 1, Len(s)) = suf

\* sep.join(parts)
RECURSIVE Join(_, _)
Join(parts, sep) ==
  IF parts = <<>> THEN <<>>
  ELSE IF Len(parts) = 1 THEN parts[1]
  ELSE parts[1] \o sep \o Join(Tail(parts), sep)

\* str.splitlines()[0] of a non-empty string: the text before the first line break
FirstLine(s) ==
  LET nl == {i \in 1..Len(s) : s[i] = "\n"}
  IN  IF nl = {} THEN s ELSE SubSeq(s, 1, Min(nl) - 1)

\* n copies of s, one after the other
Repeat(s, n) == [i \in 1..(n * Len(s)) |-> s[((i - 1) % Len(s)) + 1]]

\* the end of the longest run of characters satisfying P that starts at i
\* (i - 1 when s[i] does not satisfy P)
RunEnd(s, i, P(_)) ==
  LET stops == {j \in i..Len(s) : ~P(s[j])}
  IN  IF stops = {} THEN Len(s) ELSE Min(stops) - 1

\* int(ds) of a string of decimal digits
RECURSIVE ToInt(_)
ToInt(ds) ==
  IF ds = <<>> THEN 0
  ELSE 10 * ToInt(SubSeq(ds, 1, Len(ds) - 1)) + (IndexOf(DigitSeq, ds[Len(ds)]) - 1)

AllDigits(s) == \A i \in 1..Len(s) : IsDigit(s[i])

\* the elements of a finite set of integers, ascending
RECURSIVE Ascending(_)
Ascending(S) == IF S = {} THEN <<>> ELSE <<Min(S)>> \o Ascending(S \ {Min(S)})

\* all the orders in which the remote store may return n records
Orders(n) == {f \in [1..n -> 1..n] : \A i, j \in 1..n : f[i] = f[j] => i = j}
\* The orders of the n records of a database that differ on the records S.  A
\* query returns only records that match its filter, so where the order puts
\* the records outside S (S holding every record a filter of the handler may
\* match) makes no difference to what the handler sees.
ReturnOrders(n, S) ==
  LET in   == Ascending(S)
      rest == Ascending((1..n) \ S)
  IN  { [i \in 1..n |-> IF i <= Len(in) THEN in[p[i]] ELSE rest[i - Len(in)]] :
        p \in Orders(Len(in)) }

\* ------------------------------------------------------------------ labels
\* Menu buttons (kb_main) and the three control labels.
BTN_CATEGORY    == <<"[Kategoriya]">>
BTN_SUBCATEGORY == <<"[Pidkategoriya]">>
BTN_TOPIC       == <<"[Topik]">>
BTN_SUBTOPIC    == <<"[Pidtopik]">>
BTN_NOTE        == <<"[Notatka]">>
BTN_QUICK_NOTE  == <<"[Shvydka notatka]">>
BTN_TASK        == <<"[Zadacha]">>
BTN_TIME        == <<"[Chas]">>
BTN_STATS       == <<"[Statystyka]">>
BTN_SEARCH      == <<"[Poshuk]">>
BTN_HELP        == <<"[Dovidka]">>
BTN_CANCEL      == <<"[Skasuvaty]">>
\* the "back to menu" label
BACK            == <<"[<- Nazad u menyu]">>
\* the "skip" label
SKIP            == <<"[- Propustyty -]">>
\* the "done" label
DONE            == <<"[Hotovo]">>
\* commands
CMD_START       == <<"/start">>
CMD_CANCEL      == <<"/cancel">>

\* fallback literals
\* the fallback title is the same literal as the "note" button
NOTE_TITLE      == BTN_NOTE
NO_NAME         == <<"[Bez nazvy]">>
INBOX           == <<"I","n","b","o","x">>
PHOTO_NAME      == <<"p","h","o","t","o",".","j","p","g">>
FILE_BIN        == <<"f","i","l","e",".","b","i","n">>
\* f"https://api.telegram.org/file/bot{BOT_TOKEN}/" : the prefix of a file URL
URL_PREFIX      == <<"[https://api.telegram.org/file/bot<BOT_TOKEN>/]">>
IMAGE_SUFFIXES  ==
  { <<".","j","p","g">>, <<".","j","p","e","g">>, <<".","p","n","g">>,
    <<".","g","i","f">>, <<".","w","e","b","p">>, <<".","b","m","p">>,
    <<".","s","v","g">> }

kb_main ==
  << BTN_CATEGORY, BTN_SUBCATEGORY, BTN_TOPIC, BTN_SUBTOPIC, BTN_NOTE,
     BTN_QUICK_NOTE, BTN_TASK, BTN_TIME, BTN_STATS, BTN_SEARCH, BTN_HELP,
     BTN_CANCEL >>
kb_back == << BACK >>
kb_list(items) == items \o << BACK >>
\* ReplyKeyboardMarkup([[done],[back]])
kb_done == << DONE, BACK >>
\* ReplyKeyboardRemove / no keyboard given: the previous keyboard stays
kb_none == << >>

\* ----------------------------------------------------- conversation states
NO_CONVERSATION == -1
MENU == 0
ADD_CAT == 1
ADD_SUB == 2
ADD_TOPIC == 3
ADD_SUBTOPIC == 4
NOTE_PICK_L1 == 5
NOTE_PICK_L2 == 6
NOTE_PICK_L3 == 7
NOTE_PICK_L4 == 8
NOTE_FILES_OR_TEXT == 9
TASK_ADD_TITLE == 10
TASK_ADD_DUE == 11
TASK_ADD_PROJECT == 12
TIME_ADD_PROJECT == 13
TIME_ADD_MINUTES == 14
TIME_ADD_NOTE == 15
SEARCH_ENTER == 16

\* The keys of the states dictionary given to the ConversationHandler: the
\* states that have a handler for a text message.
RegisteredStates ==
  { MENU, ADD_CAT, ADD_SUB, ADD_SUB + 100, ADD_TOPIC, ADD_TOPIC + 100,
    ADD_TOPIC + 200, ADD_SUBTOPIC, ADD_SUBTOPIC + 100, ADD_SUBTOPIC + 300,
    NOTE_PICK_L1, NOTE_PICK_L2, NOTE_PICK_L3, NOTE_PICK_L4, NOTE_FILES_OR_TEXT,
    TASK_ADD_TITLE, TASK_ADD_DUE, TASK_ADD_PROJECT, TIME_ADD_PROJECT,
    TIME_ADD_MINUTES, TIME_ADD_NOTE, SEARCH_ENTER }

\* -------------------------------------------------------------- dictionary
\* ctx.user_data is a dict: a function whose domain is the keys present.
EmptyDict == [k \in {} |-> 0]
Has(d, k) == k \in DOMAIN d
Put(d, k, v) == [x \in (DOMAIN d) \cup {k} |-> IF x = k THEN v ELSE d[x]]
Pop(d, k) == [x \in (DOMAIN d) \ {k} |-> d[x]]
\* d.get(k, default)
Get(d, k, default) == IF Has(d, k) THEN d[k] ELSE default

\* ----------------------------------------------------------------- catalog
\* parent_id: Optional[str] = None ; a missing relation
None == 0
Levels == <<"Category", "Subcategory", "Topic", "Subtopic">>

CatalogNode(id, name, level, parent_id) ==
  [id |-> id, name |-> name, level |-> level, parent_id |-> parent_id]

\* A catalog page is stored as the node it describes; a page with an empty
\* title reads back as the "no name" literal.
page_to_node(p) ==
  CatalogNode(p.id, IF p.name = <<>> THEN NO_NAME ELSE p.name, p.level, p.parent_id)

\* The pages of the catalog database that match the filter of find_nodes:
\* Level equals level, and Parent contains parent_id when one is given.
find_nodes_filter(cat, level, parent_id) ==
  {i \in 1..Len(cat) :
     /\ cat[i].level = level
     /\ (parent_id # None => cat[i].parent_id = parent_id)}

\* What notion_query returns for a set of matching pages: the store gives no
\* canonical order, so the pages come in the order `order` (any permutation of
\* the page ids), at most page_size of them.
notion_query(cat, order, matching, page_size) ==
  Take(SelectSeq([i \in 1..Len(order) |-> cat[order[i]]],
                 LAMBDA p : p.id \in matching),
       page_size)

\* a sort key that keeps the case of the name
sort_key_exact(n) == n.name

\* key=lambda x: x.name.lower()
sort_key(n) == Lower(n.name)

\* sorted(nodes, key=sort_key): Python's sort is stable, so the result is the
\* one that inserts each node, in the order given, after every node whose key
\* is not greater.
RECURSIVE sorted_nodes(_)
sorted_nodes(nodes) ==
  IF nodes = <<>> THEN <<>>
  ELSE LET rest == sorted_nodes(SubSeq(nodes, 1, Len(nodes) - 1))
           x    == nodes[Len(nodes)]
           p    == Cardinality({i \in 1..Len(rest) :
                                  StrLeq(sort_key(rest[i]), sort_key(x))})
       IN  SubSeq(rest, 1, p) \o <<x>> \o SubSeq(rest, p + 1, Len(rest))

\* find_nodes, given the pages the query returned
find_nodes(results) ==
  sorted_nodes([i \in 1..Len(results) |-> page_to_node(results[i])])

\* ensure_node: always creates a page; the node it returns carries the new id
ensure_node(cat, name, level, parent_id) ==
  LET node == CatalogNode(Len(cat) + 1, name, level, parent_id)
  IN  [node |-> node, catalog |-> Append(cat, node)]

\* The pages that match the filter of ensure_inbox_category.
inbox_filter(cat) ==
  {i \in 1..Len(cat) : cat[i].level = "Category" /\ cat[i].name = INBOX}

\* ensure_inbox_category, given the pages its query returned (page_size 1)
ensure_inbox_category(cat, results) ==
  IF results # <<>>
  THEN [node |-> page_to_node(results[1]), catalog |-> cat, created |-> FALSE]
  ELSE LET node == CatalogNode(Len(cat) + 1, INBOX, "Category", None)
       IN  [node |-> node, catalog |-> Append(cat, node), created |-> TRUE]

\* ------------------------------------------------------------------- notes
\* _safe_multi_select: the loop over tags, with uniq and seen as it goes
RECURSIVE multi_select_loop(_, _, _)
multi_select_loop(tags, uniq, seen) ==
  IF tags = <<>> THEN uniq
  ELSE LET t == Lower(StripChars(Head(tags), {"#", " "}))
       IN  IF t = <<>> \/ t \in seen
           THEN multi_select_loop(Tail(tags), uniq, seen)
           ELSE IF Len(uniq) + 1 >= TAG_LIMIT
                THEN Append(uniq, Take(t, TAG_NAME_LIMIT))
                ELSE multi_select_loop(Tail(tags),
                                       Append(uniq, Take(t, TAG_NAME_LIMIT)),
                                       seen \cup {t})
safe_multi_select(tags) == multi_select_loop(tags, <<>>, {})

\* re.findall(r"#\w+", text)[:10]: every '#' followed by a word character
\* starts a match, which runs to the end of the word characters
hashtag_starts(text) ==
  {i \in 1..(Len(text) - 1) : text[i] = "#" /\ IsWord(text[i + 1])}
parse_hashtags(text) ==
  LET at == Ascending(hashtag_starts(text))
  IN  Take([k \in 1..Len(at) |-> SubSeq(text, at[k], RunEnd(text, at[k] + 1, IsWord))],
           TAG_LIMIT)

\* a file entry of the FILES buffer: {"name":..,"type":"external","external":{"url":..}}
FileRef(name, url) == [name |-> name, url |-> url]
Block(type, content) == [type |-> type, content |-> content]
is_image_url(url) == \E suf \in IMAGE_SUFFIXES : EndsWith(Lower(url), suf)

\* _build_children_blocks
build_children_blocks(text, files) ==
  LET withUrl == SelectSeq(files, LAMBDA f : f.url # <<>>)
  IN  (IF text # <<>> THEN <<Block("paragraph", Take(text, BODY_LIMIT))>> ELSE <<>>)
      \o [i \in 1..Len(withUrl) |->
            IF is_image_url(withUrl[i].url)
            THEN Block("image", withUrl[i].url)
            ELSE Block("file", withUrl[i].url)]

\* What a remote call may do: succeed, be rejected (raise_for_status raises
\* requests.HTTPError), or fail in transport (a timeout, not an HTTPError).
Outcomes == {"ok", "http_error", "timeout"}

Call(op, db, properties, children, page, outcome) ==
  [op |-> op, db |-> db, properties |-> properties, children |-> children,
   page |-> page, outcome |-> outcome]

\* the props dictionary create_note builds before the first request
note_props(title, text, tags, ids) ==
  LET base == [Name    |-> IF Take(title, NAME_LIMIT) # <<>>
                           THEN Take(title, NAME_LIMIT) ELSE NOTE_TITLE,
               Text    |-> Take(text, BODY_LIMIT),
               Tags    |-> safe_multi_select(tags),
               Created |-> "now"]
      p1 == IF Get(ids, "cat", None) # None
            THEN Put(base, "Category", ids["cat"]) ELSE base
      p2 == IF Get(ids, "sub", None) # None
            THEN Put(p1, "Subcategory", ids["sub"]) ELSE p1
      p3 == IF Get(ids, "topic", None) # None
            THEN Put(p2, "Topic", ids["topic"]) ELSE p2
  IN  IF Get(ids, "subtopic", None) # None
      THEN Put(p3, "Subtopic", ids["subtopic"]) ELSE p3

\* The properties of the retry request.  payload["properties"] is the props
\* object itself, so the Files entry added to the first payload is in props
\* when payload2 is built from it.
retry_props(props, files) ==
  IF files # <<>> THEN Put(props, "Files", files) ELSE props

\* send_note against a store that creates the record of a request it answers
\* with an error: the retry then adds a second one
send_note_first_kept(store, props, children, files, o1, o2, o3) ==
  LET props1 == IF files # <<>> THEN Put(props, "Files", files) ELSE props
      call1  == Call("create_page", "notes", props1, children, None, o1)
      first  == Append(store, [id |-> Len(store) + 1, properties |-> props1,
                               children |-> children])
      call2  == Call("create_page", "notes", retry_props(props, files), <<>>, None, o2)
      both   == Append(first, [id |-> Len(first) + 1,
                               properties |-> retry_props(props, files),
                               children |-> <<>>])
  IN  IF o1 = "ok"
      THEN [calls |-> <<call1>>, raised |-> "none", page_id |-> Len(first), store |-> first]
      ELSE IF o1 # "http_error"
      THEN [calls |-> <<call1>>, raised |-> o1, page_id |-> None, store |-> store]
      ELSE IF o2 # "ok"
      THEN [calls |-> <<call1, call2>>, raised |-> o2, page_id |-> None, store |-> first]
      ELSE [calls |-> <<call1, call2>>, raised |-> "none", page_id |-> Len(both),
            store |-> both]

\* The requests of create_note, once props and children are built: the
\* create, on requests.HTTPError the retry, and after a retry with children
\* the append.  raised is "none" when page_id is returned.
send_note(store, props, children, files, o1, o2, o3) ==
  LET props1   == IF files # <<>> THEN Put(props, "Files", files) ELSE props
      new_id   == Len(store) + 1
      call1    == Call("create_page", "notes", props1, children, None, o1)
      props2   == retry_props(props, files)
      call2    == Call("create_page", "notes", props2, <<>>, None, o2)
      call3    == Call("append_children", "notes", EmptyDict, children, new_id, o3)
      bare     == Append(store, [id |-> new_id, properties |-> props2, children |-> <<>>])
  IN  IF o1 = "ok"
      THEN [calls |-> <<call1>>, raised |-> "none", page_id |-> new_id,
            store |-> Append(store, [id |-> new_id, properties |-> props1,
                                     children |-> children])]
      ELSE IF o1 # "http_error"
      THEN [calls |-> <<call1>>, raised |-> o1, page_id |-> None, store |-> store]
      ELSE IF o2 # "ok"
      THEN [calls |-> <<call1, call2>>, raised |-> o2, page_id |-> None, store |-> store]
      ELSE IF children = <<>>
      THEN [calls |-> <<call1, call2>>, raised |-> "none", page_id |-> new_id,
            store |-> bare]
      ELSE IF o3 # "ok"
      THEN [calls |-> <<call1, call2, call3>>, raised |-> o3, page_id |-> None,
            store |-> bare]
      ELSE [calls |-> <<call1, call2, call3>>, raised |-> "none", page_id |-> new_id,
            store |-> [bare EXCEPT ![new_id].children = children]]

\* create_note(title, text, tags, ids, files) against the note store `store`,
\* with the outcomes o1, o2, o3 of the requests it may send
create_note(store, title, text, tags, ids, files, o1, o2, o3) ==
  send_note(store, note_props(title, text, tags, ids),
            build_children_blocks(text, files), files, o1, o2, o3)

\* What the optional AI collaborator may answer: (tags, summary).  A failure
\* of the call is answered ([], "").
AiAnswers ==
  { [tags |-> <<>>, summary |-> <<>>],
    [tags |-> << <<"a","i">> >>, summary |-> <<"s","u","m">>] }

\* ai_suggest_tags_and_summary
ai_suggest_tags_and_summary(text, configured, answer) ==
  IF ~(configured /\ Strip(text) # <<>>)
  THEN [tags |-> <<>>, summary |-> <<>>]
  ELSE [tags |-> Take(answer.tags, 7), summary |-> Take(answer.summary, NAME_LIMIT)]

\* ---------------------------------------------------------------- time log
Parsed(v) == [ok |-> TRUE, minutes |-> v]
ValueError == [ok |-> FALSE, minutes |-> 0]

\* re.fullmatch(r"\d+:\d{1,2}", s)
matches_h_mm(s) ==
  \E k \in 2..(Len(s) - 1) :
     /\ s[k] = ":"
     /\ AllDigits(SubSeq(s, 1, k - 1))
     /\ AllDigits(SubSeq(s, k + 1, Len(s)))
     /\ Len(s) - k <= 2

\* re.match(r"(?:(\d+)\s*h)?\s*(\d+)?\s*m?", s): the two groups, <<>> for a
\* group that did not take part.  The optional hour group takes part exactly
\* when s starts with digits, then spaces, then 'h'; what follows can always
\* match, so there is no backtracking into it.
duration_groups(s) ==
  LET d1   == RunEnd(s, 1, IsDigit)
      sp1  == RunEnd(s, d1 + 1, IsSpace)
      hour == d1 >= 1 /\ sp1 + 1 <= Len(s) /\ s[sp1 + 1] = "h"
      from == IF hour THEN RunEnd(s, sp1 + 2, IsSpace) + 1 ELSE RunEnd(s, 1, IsSpace) + 1
      d2   == RunEnd(s, from, IsDigit)
  IN  [g1 |-> IF hour THEN SubSeq(s, 1, d1) ELSE <<>>,
       g2 |-> IF d2 >= from THEN SubSeq(s, from, d2) ELSE <<>>]

\* parse_duration
parse_duration(str) ==
  LET s == Lower(Strip(str))
      g == duration_groups(s)
  IN  IF matches_h_mm(s)
      THEN LET k == CHOOSE i \in 1..Len(s) : s[i] = ":"
           IN  Parsed(ToInt(SubSeq(s, 1, k - 1)) * 60 + ToInt(SubSeq(s, k + 1, Len(s))))
      ELSE IF g.g1 # <<>> \/ g.g2 # <<>>
      THEN Parsed(ToInt(g.g1) * 60 + ToInt(g.g2))
      ELSE IF s # <<>> /\ AllDigits(s)
      THEN Parsed(ToInt(s))
      ELSE ValueError

\* ------------------------------------------------------------------- state
VARIABLES
  st,        \* st[u]: the ConversationHandler state of user u
  ud,        \* ud[u]: ctx.user_data of user u
  catalog,   \* the pages of the catalog database, page id = position
  notes,     \* the pages of the notes database
  projects,  \* the pages of the projects database (their names)
  tasks,     \* the pages of the tasks database
  timelogs,  \* the pages of the time-log database
  env,       \* which optional settings the deployment has
  lastIn,    \* the update processed last: [user, msg]
  out,       \* the replies sent while processing it
  calls,     \* the remote calls made while processing it
  exc,       \* the exception that left the handler ("none" when it returned)
  steps,     \* the number of updates processed so far
  hist,      \* hist[u]: the updates u sent since the collecting state was entered
  trail,     \* trail[u]: the steps of u's workflow: [s, m], the state an update
             \* was taken in and the update, from the last one taken in the menu
             \* on; a step that changed neither state nor user_data is left out
  fn_in,     \* input of the function under check (function specifications)
  fn_out,    \* its result
  update_queue,  \* the updates users sent that no handler was started for yet
  running    \* the handler the event loop is running: [user, msg, phase]

vars == <<st, ud, catalog, notes, projects, tasks, timelogs, env, lastIn, out,
          calls, exc, steps, hist, trail, fn_in, fn_out, update_queue, running>>

\* running while the event loop runs no handler
NoHandler == [phase |-> "none"]

\* ---------------------------------------------------------------- messages
\* An inbound update.  text and caption are <<>> when the message has none;
\* file is what bot.get_file answers for a photo or a document: a file path,
\* <<>> when the answer carries no path.
Msg(kind, text, caption, file, fname) ==
  [kind |-> kind, text |-> text, caption |-> caption, file |-> file, fname |-> fname]
TextMsg(t)           == Msg("text", t, <<>>, <<>>, <<>>)
CommandMsg(c)        == Msg("command", c, <<>>, <<>>, <<>>)
PhotoMsg(cap, file)  == Msg("photo", <<>>, cap, file, <<>>)
DocMsg(fname, cap, file) == Msg("document", <<>>, cap, file, fname)
VoiceMsg             == Msg("voice", <<>>, <<>>, <<>>, <<>>)
NoMsg                == Msg("none", <<>>, <<>>, <<>>, <<>>)

Reply(text, kb) == [text |-> text, kb |-> kb]

Names(nodes) == [i \in 1..Len(nodes) |-> nodes[i].name]
\* labels that carry the skip entry only when there is a node to choose
labels_if_any(nodes) == IF nodes = <<>> THEN <<>> ELSE <<SKIP>> \o Names(nodes)
\* labels = [skip] + [s.name for s in nodes]
labels(nodes) == <<SKIP>> \o Names(nodes)
\* next((c for c in nodes if c.name == t), None): the position of the first
\* node named t, 0 for None
first_named(nodes, t) ==
  LET hits == {i \in 1..Len(nodes) : nodes[i].name = t}
  IN  IF hits = {} THEN 0 ELSE Min(hits)

\* What a handler did: the state it returned, the user_data it left, its
\* replies, its remote calls, the exception that left it, and the stores.
Res(newst, newud, replies, cs) ==
  [st |-> newst, ud |-> newud, out |-> replies, calls |-> cs, exc |-> "none",
   catalog |-> catalog, notes |-> notes, projects |-> projects,
   tasks |-> tasks, timelogs |-> timelogs]
\* The handler raised e: the ConversationHandler keeps the state it had.
Raised(e, newud, replies, cs) ==
  [Res(NO_CONVERSATION, newud, replies, cs) EXCEPT !.exc = e]

\* a dispatch that keeps one user_data for all users: what the handler stored
\* for u is what every other user's handler finds
Apply_one_user_data(u, m, res) ==
  \E r \in {res} :
     /\ steps' = steps + 1
     /\ Len(r.catalog) <= MaxNodes
     /\ Len(r.notes) <= MaxNotes
     /\ Len(r.projects) <= MaxRecords
     /\ Len(r.tasks) <= MaxRecords
     /\ Len(r.timelogs) <= MaxRecords
     /\ st' = [st EXCEPT ![u] = IF r.exc = "none" THEN r.st ELSE st[u]]
     /\ ud' = [v \in DOMAIN ud |-> r.ud]
     /\ out' = r.out
     /\ calls' = r.calls
     /\ exc' = r.exc
     /\ catalog' = r.catalog
     /\ notes' = r.notes
     /\ projects' = r.projects
     /\ tasks' = r.tasks
     /\ timelogs' = r.timelogs
     /\ lastIn' = [user |-> u, msg |-> m]
     /\ hist' = [hist EXCEPT ![u] = IF st[u] = NOTE_FILES_OR_TEXT
                                    THEN Append(hist[u], m) ELSE <<>>]
     /\ trail' = [trail EXCEPT ![u] = IF st[u] \in {NO_CONVERSATION, MENU}
                                      THEN <<[s |-> st[u], m |-> m]>>
                                      ELSE IF st'[u] = st[u] /\ r.ud = ud[u] THEN trail[u]
                                      ELSE Append(trail[u], [s |-> st[u], m |-> m])]
     /\ running' = NoHandler
     /\ UNCHANGED <<env, fn_in, fn_out, update_queue>>

\* The update m of user u was processed with result r.
Apply(u, m, res) ==
  \E r \in {res} :
     /\ steps' = steps + 1
     /\ Len(r.catalog) <= MaxNodes
     /\ Len(r.notes) <= MaxNotes
     /\ Len(r.projects) <= MaxRecords
     /\ Len(r.tasks) <= MaxRecords
     /\ Len(r.timelogs) <= MaxRecords
     /\ st' = [st EXCEPT ![u] = IF r.exc = "none" THEN r.st ELSE st[u]]
     /\ ud' = [ud EXCEPT ![u] = r.ud]
     /\ out' = r.out
     /\ calls' = r.calls
     /\ exc' = r.exc
     /\ catalog' = r.catalog
     /\ notes' = r.notes
     /\ projects' = r.projects
     /\ tasks' = r.tasks
     /\ timelogs' = r.timelogs
     /\ lastIn' = [user |-> u, msg |-> m]
     /\ hist' = [hist EXCEPT ![u] = IF st[u] = NOTE_FILES_OR_TEXT
                                    THEN Append(hist[u], m) ELSE <<>>]
     /\ trail' = [trail EXCEPT ![u] = IF st[u] \in {NO_CONVERSATION, MENU}
                                      THEN <<[s |-> st[u], m |-> m]>>
                                      ELSE IF st'[u] = st[u] /\ r.ud = ud[u] THEN trail[u]
                                      ELSE Append(trail[u], [s |-> st[u], m |-> m])]
     /\ running' = NoHandler
     /\ UNCHANGED <<env, fn_in, fn_out, update_queue>>

\* find_nodes(level, parent_id) as one remote call with outcome o
QueryCall(db, filter, results, o) ==
  Call("query", db, filter, IF o = "ok" THEN results ELSE <<>>, None, o)
find_nodes_call(cat, order, level, parent_id, o) ==
  LET results == notion_query(cat, order, find_nodes_filter(cat, level, parent_id),
                              PAGE_SIZE)
  IN  [nodes |-> find_nodes(results),
       call  |-> QueryCall("catalog", [Level |-> level, Parent |-> parent_id],
                           results, o)]
\* ensure_node(name, level, parent_id) as one remote call with outcome o
CreateCall(db, properties, o) == Call("create_page", db, properties, <<>>, None, o)
ensure_node_call(cat, name, level, parent_id, o) ==
  [r    |-> ensure_node(cat, name, level, parent_id),
   call |-> CreateCall("catalog", [Name |-> name, Level |-> level,
                                   Parent |-> parent_id], o)]
\* ensure_inbox_category() with the outcomes o1 (query) and o2 (create)
ensure_inbox_call(cat, order, o1, o2) ==
  LET results == notion_query(cat, order, inbox_filter(cat), 1)
      q == QueryCall("catalog", [Level |-> "Category", Name |-> INBOX], results, o1)
      r == ensure_inbox_category(cat, results)
      c == CreateCall("catalog", [Name |-> INBOX, Level |-> "Category",
                                  Parent |-> None], o2)
  IN  IF o1 # "ok" THEN [exc |-> o1, calls |-> <<q>>, node |-> None, catalog |-> cat]
      ELSE IF ~r.created
      THEN [exc |-> "none", calls |-> <<q>>, node |-> r.node, catalog |-> cat]
      ELSE IF o2 # "ok"
      THEN [exc |-> o2, calls |-> <<q, c>>, node |-> None, catalog |-> cat]
      ELSE [exc |-> "none", calls |-> <<q, c>>, node |-> r.node, catalog |-> r.catalog]

NoteIds(cat, sub, topic, subtopic) ==
  [cat |-> cat, sub |-> sub, topic |-> topic, subtopic |-> subtopic]

\* -------------------------------------------------------------- start, menu
\* cmd_start: the reply and MENU; user_data is left as it is
cmd_start(d) == Res(MENU, d, <<Reply("menu", kb_main)>>, <<>>)

\* The tree-level buttons of menu_router: list the categories, keep them as
\* L1 and go to `next`; with no category, stay in the menu.
menu_pick_category(d, order, o, next) ==
  LET q == find_nodes_call(catalog, order, "Category", None, o)
  IN  IF o # "ok" THEN Raised(o, d, <<>>, <<q.call>>)
      ELSE IF q.nodes = <<>>
      THEN Res(MENU, d, <<Reply("no_categories", kb_main)>>, <<q.call>>)
      ELSE Res(next, Put(d, "L1", q.nodes),
               <<Reply("choose_category", kb_list(Names(q.nodes)))>>, <<q.call>>)

\* a start of the capture that sets Inbox only when the session holds no
\* NOTE_IDS yet
start_capture_keep_ids(d, inbox_id) ==
  IF Has(d, "NOTE_IDS") THEN Put(Put(d, "FILES", <<>>), "TEXTBUF", <<>>)
  ELSE Put(Put(Put(d, "NOTE_IDS", NoteIds(inbox_id, None, None, None)),
               "FILES", <<>>), "TEXTBUF", <<>>)

\* The capture a note starts with once Inbox is its category.
start_capture(d, inbox_id) ==
  Put(Put(Put(d, "NOTE_IDS", NoteIds(inbox_id, None, None, None)),
          "FILES", <<>>), "TEXTBUF", <<>>)

\* the "note" button of menu_router
menu_note(d, order, os) ==
  LET q  == find_nodes_call(catalog, order, "Category", None, os[1])
      ib == ensure_inbox_call(catalog, order, os[2], os[3])
      r1 == Reply("creating_inbox", kb_back)
  IN  IF os[1] # "ok" THEN Raised(os[1], d, <<>>, <<q.call>>)
      ELSE IF q.nodes # <<>>
      THEN Res(NOTE_PICK_L1, Put(d, "L1", q.nodes),
               <<Reply("choose_category", kb_list(Names(q.nodes)))>>, <<q.call>>)
      ELSE IF ib.exc # "none"
      THEN Raised(ib.exc, d, <<r1>>, <<q.call>> \o ib.calls)
      ELSE [Res(NOTE_FILES_OR_TEXT, start_capture(d, ib.node.id),
                <<r1, Reply("send_content", kb_done)>>, <<q.call>> \o ib.calls)
            EXCEPT !.catalog = ib.catalog]

\* the "quick note" button of menu_router
menu_quick_note(d, order, os) ==
  LET ib == ensure_inbox_call(catalog, order, os[1], os[2])
  IN  IF ib.exc # "none" THEN Raised(ib.exc, d, <<>>, ib.calls)
      ELSE [Res(NOTE_FILES_OR_TEXT, start_capture(d, ib.node.id),
                <<Reply("send_content", kb_done)>>, ib.calls)
            EXCEPT !.catalog = ib.catalog]

\* stats_time_logs("week") behind the "statistics" button
menu_stats(d, o) ==
  LET q == QueryCall("timelog", [Date |-> "week"], timelogs, o)
  IN  IF ~(env.timelog_db /\ env.projects_db)
      THEN Res(MENU, d, <<Reply("stats", kb_main)>>, <<>>)
      ELSE IF o # "ok" THEN Raised(o, d, <<>>, <<q>>)
      ELSE Res(MENU, d, <<Reply("stats", kb_main)>>, <<q>>)

\* menu_router on the stripped text t
menu_router(d, t, order, os) ==
  CASE t = BTN_CATEGORY    -> Res(ADD_CAT, d, <<Reply("enter_category", kb_back)>>, <<>>)
    [] t = BTN_SUBCATEGORY -> menu_pick_category(d, order, os[1], ADD_SUB)
    [] t = BTN_TOPIC       -> menu_pick_category(d, order, os[1], ADD_TOPIC)
    [] t = BTN_SUBTOPIC    -> menu_pick_category(d, order, os[1], ADD_SUBTOPIC)
    [] t = BTN_NOTE        -> menu_note(d, order, os)
    [] t = BTN_QUICK_NOTE  -> menu_quick_note(d, order, os)
    [] t = BTN_TASK        ->
         IF ~env.tasks_db
         THEN Res(MENU, d, <<Reply("tasks_not_connected", kb_main)>>, <<>>)
         ELSE Res(TASK_ADD_TITLE, d, <<Reply("enter_task_title", kb_back)>>, <<>>)
    [] t = BTN_TIME        ->
         IF ~(env.timelog_db /\ env.projects_db)
         THEN Res(MENU, d, <<Reply("timelog_not_connected", kb_main)>>, <<>>)
         ELSE Res(TIME_ADD_PROJECT, d, <<Reply("enter_time_project", kb_back)>>, <<>>)
    [] t = BTN_STATS       -> menu_stats(d, os[1])
    [] t = BTN_SEARCH      -> Res(SEARCH_ENTER, d, <<Reply("enter_query", kb_back)>>, <<>>)
    [] t = BTN_HELP        -> Res(MENU, d, <<Reply("help", kb_main)>>, <<>>)
    [] t \in {BTN_CANCEL, BACK} ->
         Res(MENU, EmptyDict, <<Reply("cancelled", kb_main)>>, <<>>)
    [] OTHER               -> Res(MENU, d, <<Reply("menu", kb_main)>>, <<>>)

\* ------------------------------------------------------------ tree levels
\* the create step shared by add_cat, add_sub_name, add_topic_name and
\* add_subtopic_create: ensure_node, the confirmation, MENU
create_level(d, name, level, parent_id, o, confirmation) ==
  LET e == ensure_node_call(catalog, name, level, parent_id, o)
  IN  IF o # "ok" THEN Raised(o, d, <<>>, <<e.call>>)
      ELSE [Res(MENU, d, <<Reply(confirmation, kb_main)>>, <<e.call>>)
            EXCEPT !.catalog = e.r.catalog]

add_cat(d, t, o) ==
  IF t = BACK THEN cmd_start(d)
  ELSE create_level(d, t, "Category", None, o, "category_created")

add_sub(d, t) ==
  LET cats == Get(d, "L1", <<>>)
      i    == first_named(cats, t)
  IN  IF t = BACK THEN cmd_start(d)
      ELSE IF i = 0
      THEN Res(ADD_SUB, d, <<Reply("choose_from_list", kb_list(Names(cats)))>>, <<>>)
      ELSE Res(ADD_SUB + 100, Put(d, "PARENT", cats[i]),
               <<Reply("enter_subcategory", kb_back)>>, <<>>)

add_sub_name(d, t, o) ==
  IF t = BACK THEN cmd_start(d)
  ELSE IF ~Has(d, "PARENT") THEN Raised("KeyError", d, <<>>, <<>>)
  ELSE create_level(d, t, "Subcategory", d["PARENT"].id, o, "subcategory_created")

add_topic(d, t, order, o) ==
  LET cats == Get(d, "L1", <<>>)
      i    == first_named(cats, t)
      d1   == Put(d, "PARENT", cats[i])
      q    == find_nodes_call(catalog, order, "Subcategory", cats[i].id, o)
  IN  IF t = BACK THEN cmd_start(d)
      ELSE IF i = 0
      THEN Res(ADD_TOPIC, d, <<Reply("choose_from_list", kb_list(Names(cats)))>>, <<>>)
      ELSE IF o # "ok" THEN Raised(o, d1, <<>>, <<q.call>>)
      ELSE Res(ADD_TOPIC + 100, Put(d1, "L2", q.nodes),
               <<Reply("choose_subcategory", kb_list(labels(q.nodes)))>>,
               <<q.call>>)

add_topic_next(d, t) ==
  LET subs == Get(d, "L2", <<>>)
      i    == first_named(subs, t)
      parent == IF t # SKIP THEN subs[i] ELSE d["PARENT"]
  IN  IF t = BACK THEN cmd_start(d)
      ELSE IF ~Has(d, "PARENT") THEN Raised("KeyError", d, <<>>, <<>>)
      ELSE IF t # SKIP /\ i = 0
      THEN Res(ADD_TOPIC + 100, d,
               <<Reply("choose_subcategory", kb_list(labels(subs)))>>, <<>>)
      ELSE Res(ADD_TOPIC + 200, Put(d, "PARENT_FINAL", parent),
               <<Reply("enter_topic", kb_back)>>, <<>>)

add_topic_name(d, t, o) ==
  IF t = BACK THEN cmd_start(d)
  ELSE IF ~Has(d, "PARENT_FINAL") THEN Raised("KeyError", d, <<>>, <<>>)
  ELSE create_level(d, t, "Topic", d["PARENT_FINAL"].id, o, "topic_created")

\* add_subtopic: cats is L1, or a fresh listing when L1 is missing or empty
add_subtopic(d, t, order, os) ==
  LET listed == Get(d, "L1", <<>>) = <<>>
      q0   == find_nodes_call(catalog, order, "Category", None, os[1])
      cats == IF listed THEN q0.nodes ELSE d["L1"]
      c0   == IF listed THEN <<q0.call>> ELSE <<>>
      i    == first_named(cats, t)
      q    == find_nodes_call(catalog, order, "Subcategory", cats[i].id, os[2])
  IN  IF t = BACK THEN cmd_start(d)
      ELSE IF listed /\ os[1] # "ok" THEN Raised(os[1], d, <<>>, c0)
      ELSE IF i = 0
      THEN Res(ADD_SUBTOPIC, d,
               <<Reply("choose_category", kb_list(Names(cats)))>>, c0)
      ELSE IF os[2] # "ok" THEN Raised(os[2], d, <<>>, c0 \o <<q.call>>)
      ELSE Res(ADD_SUBTOPIC + 100,
               Put(Put(d, "L2", q.nodes), "CHAIN", [cat |-> cats[i]]),
               <<Reply("choose_subcategory", kb_list(labels(q.nodes)))>>,
               c0 \o <<q.call>>)

\* add_subtopic_next.  chain is the stored dictionary itself when CHAIN is
\* present, so chain["sub"] = sub changes user_data at once; chain["cat"] is
\* evaluated as the default of chain.get("sub", ...) in every case.
add_subtopic_next(d, t, order, o) ==
  LET subs  == Get(d, "L2", <<>>)
      i     == first_named(subs, t)
      chain == IF t # SKIP THEN Put(Get(d, "CHAIN", EmptyDict), "sub", subs[i])
               ELSE Get(d, "CHAIN", EmptyDict)
      d1    == IF Has(d, "CHAIN") THEN Put(d, "CHAIN", chain) ELSE d
      base  == Get(chain, "sub", chain["cat"])
      q     == find_nodes_call(catalog, order, "Topic", base.id, o)
  IN  IF t = BACK THEN cmd_start(d)
      ELSE IF t # SKIP /\ i = 0
      THEN Res(ADD_SUBTOPIC + 100, d,
               <<Reply("choose_subcategory", kb_list(labels(subs)))>>, <<>>)
      ELSE IF ~Has(chain, "cat") THEN Raised("KeyError", d1, <<>>, <<>>)
      ELSE IF o # "ok" THEN Raised(o, d1, <<>>, <<q.call>>)
      ELSE Res(ADD_SUBTOPIC + 200, Put(Put(d1, "L3", q.nodes), "CHAIN", chain),
               <<Reply("choose_topic", kb_list(labels(q.nodes)))>>,
               <<q.call>>)

\* add_subtopic_name: defined in the source, registered for no state
add_subtopic_name(d, t) ==
  LET chain  == Get(d, "CHAIN", EmptyDict)
      topics == Get(d, "L3", <<>>)
      i      == first_named(topics, t)
      parent == IF t # SKIP THEN topics[i]
                ELSE IF Has(chain, "sub") THEN chain["sub"] ELSE chain["cat"]
  IN  IF t = BACK THEN cmd_start(d)
      ELSE IF t # SKIP /\ i = 0
      THEN Res(ADD_SUBTOPIC + 200, d,
               <<Reply("choose_topic", kb_list(labels(topics)))>>, <<>>)
      ELSE IF t = SKIP /\ ~Has(chain, "sub") /\ ~Has(chain, "cat")
      THEN Raised("AttributeError", d, <<>>, <<>>)
      ELSE Res(ADD_SUBTOPIC + 300, Put(d, "PARENT_FINAL", parent),
               <<Reply("enter_subtopic", kb_back)>>, <<>>)

add_subtopic_create(d, t, o) ==
  IF t = BACK THEN cmd_start(d)
  ELSE IF ~Has(d, "PARENT_FINAL") THEN Raised("KeyError", d, <<>>, <<>>)
  ELSE create_level(d, t, "Subtopic", d["PARENT_FINAL"].id, o, "subtopic_created")

\* ------------------------------------------------------ note: pick levels
note_pick_l1(d, t, order, o) ==
  LET cats == Get(d, "L1", <<>>)
      i    == first_named(cats, t)
      d1   == Put(d, "NOTE_IDS", NoteIds(cats[i].id, None, None, None))
      q    == find_nodes_call(catalog, order, "Subcategory", cats[i].id, o)
  IN  IF t = BACK THEN cmd_start(d)
      ELSE IF i = 0
      THEN Res(NOTE_PICK_L1, d,
               <<Reply("choose_from_list", kb_list(Names(cats)))>>, <<>>)
      ELSE IF o # "ok" THEN Raised(o, d1, <<>>, <<q.call>>)
      ELSE Res(NOTE_PICK_L2, Put(d1, "L2", q.nodes),
               <<Reply("choose_subcategory", kb_list(labels(q.nodes)))>>,
               <<q.call>>)

\* the part note_pick_l2, _l3 and _l4 share: unless t is skip, the reply must
\* name a node of the offered list, whose id is stored in NOTE_IDS[key]
pick_level(d, t, list_key, key) ==
  LET offered == Get(d, list_key, <<>>)
      i       == first_named(offered, t)
  IN  IF t = SKIP THEN [ok |-> TRUE, exc |-> "none", ud |-> d, offered |-> offered,
                        chosen |-> None]
      ELSE IF i = 0 THEN [ok |-> FALSE, exc |-> "none", ud |-> d, offered |-> offered,
                          chosen |-> None]
      ELSE IF ~Has(d, "NOTE_IDS")
      THEN [ok |-> FALSE, exc |-> "KeyError", ud |-> d, offered |-> offered,
            chosen |-> None]
      ELSE [ok |-> TRUE, exc |-> "none",
            ud |-> Put(d, "NOTE_IDS", Put(d["NOTE_IDS"], key, offered[i].id)),
            offered |-> offered, chosen |-> offered[i].id]

\* a subcategory step that, on a reply that names no offered node, sends the
\* session back to the category step
note_pick_l2_from_top(d, t, order, o) ==
  LET p    == pick_level(d, t, "L2", "sub")
      base == IF t # SKIP THEN p.chosen ELSE d["NOTE_IDS"]["cat"]
      q    == find_nodes_call(catalog, order, "Topic", base, o)
  IN  IF t = BACK THEN cmd_start(d)
      ELSE IF p.exc # "none" THEN Raised(p.exc, p.ud, <<>>, <<>>)
      ELSE IF ~p.ok
      THEN Res(NOTE_PICK_L1, d,
               <<Reply("choose_from_list", kb_list(labels(p.offered)))>>, <<>>)
      ELSE IF t = SKIP /\ ~(Has(d, "NOTE_IDS") /\ Has(d["NOTE_IDS"], "cat"))
      THEN Raised("KeyError", d, <<>>, <<>>)
      ELSE IF o # "ok" THEN Raised(o, p.ud, <<>>, <<q.call>>)
      ELSE Res(NOTE_PICK_L3, Put(p.ud, "L3", q.nodes),
               <<Reply("choose_topic", kb_list(labels(q.nodes)))>>,
               <<q.call>>)

note_pick_l2(d, t, order, o) ==
  LET p    == pick_level(d, t, "L2", "sub")
      base == IF t # SKIP THEN p.chosen ELSE d["NOTE_IDS"]["cat"]
      q    == find_nodes_call(catalog, order, "Topic", base, o)
  IN  IF t = BACK THEN cmd_start(d)
      ELSE IF p.exc # "none" THEN Raised(p.exc, p.ud, <<>>, <<>>)
      ELSE IF ~p.ok
      THEN Res(NOTE_PICK_L2, d,
               <<Reply("choose_from_list", kb_list(labels(p.offered)))>>, <<>>)
      ELSE IF t = SKIP /\ ~(Has(d, "NOTE_IDS") /\ Has(d["NOTE_IDS"], "cat"))
      THEN Raised("KeyError", d, <<>>, <<>>)
      ELSE IF o # "ok" THEN Raised(o, p.ud, <<>>, <<q.call>>)
      ELSE Res(NOTE_PICK_L3, Put(p.ud, "L3", q.nodes),
               <<Reply("choose_topic", kb_list(labels(q.nodes)))>>,
               <<q.call>>)

note_pick_l3(d, t, order, o) ==
  LET p    == pick_level(d, t, "L3", "topic")
      ids  == d["NOTE_IDS"]
      base == IF t # SKIP THEN p.chosen
              ELSE IF Get(ids, "sub", None) # None THEN ids["sub"] ELSE ids["cat"]
      q    == find_nodes_call(catalog, order, "Subtopic", base, o)
  IN  IF t = BACK THEN cmd_start(d)
      ELSE IF p.exc # "none" THEN Raised(p.exc, p.ud, <<>>, <<>>)
      ELSE IF ~p.ok
      THEN Res(NOTE_PICK_L3, d,
               <<Reply("choose_from_list", kb_list(labels(p.offered)))>>, <<>>)
      ELSE IF t = SKIP /\ ~Has(d, "NOTE_IDS")
      THEN Raised("KeyError", d, <<>>, <<>>)
      ELSE IF t = SKIP /\ Get(ids, "sub", None) = None /\ ~Has(ids, "cat")
      THEN Raised("KeyError", d, <<>>, <<>>)
      ELSE IF o # "ok" THEN Raised(o, p.ud, <<>>, <<q.call>>)
      ELSE Res(NOTE_PICK_L4, Put(p.ud, "L4", q.nodes),
               <<Reply("choose_subtopic", kb_list(labels(q.nodes)))>>,
               <<q.call>>)

note_pick_l4(d, t) ==
  LET p == pick_level(d, t, "L4", "subtopic")
  IN  IF t = BACK THEN cmd_start(d)
      ELSE IF p.exc # "none" THEN Raised(p.exc, p.ud, <<>>, <<>>)
      ELSE IF ~p.ok
      THEN Res(NOTE_PICK_L4, d,
               <<Reply("choose_from_list", kb_list(labels(p.offered)))>>, <<>>)
      ELSE Res(NOTE_FILES_OR_TEXT, Put(Put(p.ud, "FILES", <<>>), "TEXTBUF", <<>>),
               <<Reply("send_content", kb_done)>>, <<>>)

\* a buffering of a photo or a document that leaves its caption out
buffer_file_no_caption(d, name, file, caption) ==
  IF file # <<>>
  THEN Put(d, "FILES", Append(Get(d, "FILES", <<>>), FileRef(name, URL_PREFIX \o file)))
  ELSE d

\* --------------------------------------------------- note: collect, commit
\* the photo and document branches: the file is appended when get_file gave a
\* path, the caption when there is one
buffer_file(d, name, file, caption) ==
  LET d1 == IF file # <<>>
            THEN Put(d, "FILES",
                     Append(Get(d, "FILES", <<>>), FileRef(name, URL_PREFIX \o file)))
            ELSE d
  IN  IF caption # <<>>
      THEN Put(d1, "TEXTBUF", Append(Get(d1, "TEXTBUF", <<>>), caption))
      ELSE d1

\* the text all fragments make: "\n".join(TEXTBUF)[:1800]
text_all_of(d) == Take(Join(Get(d, "TEXTBUF", <<>>), <<"\n">>), BODY_LIMIT)
\* the title of the note: the first line of the text, else the summary, else
\* the fallback literal, cut to 60
title_of(text_all, ai_summary) ==
  Take(IF text_all # <<>> THEN FirstLine(text_all)
       ELSE IF ai_summary # <<>> THEN ai_summary ELSE NOTE_TITLE,
       TITLE_CUT)

\* a release of the capture that happens only when create_note returned: on a
\* failure the buffers are kept and the session stays in the collecting state
note_done_on_success(d, c) ==
  IF c.raised = "none"
  THEN [Res(MENU, Pop(Pop(d, "FILES"), "TEXTBUF"),
            <<Reply("note_saved", kb_main)>>, c.calls)
        EXCEPT !.notes = c.store]
  ELSE [Res(NOTE_FILES_OR_TEXT, d, <<Reply("save_failed", kb_done)>>, c.calls)
        EXCEPT !.notes = c.store]

\* The "done" branch of note_files_or_text, in its three steps: the reply and
\* the release of the buffers once create_note returned or raised (c),
note_done(d, c) ==
  [Res(MENU, Pop(Pop(d, "FILES"), "TEXTBUF"),
       <<Reply(IF c.raised = "none" THEN "note_saved" ELSE "save_failed", kb_main)>>,
       c.calls)
   EXCEPT !.notes = c.store]
\* the title, the tags and the create_note call, given the text, the files and
\* the answer ai of ai_suggest_tags_and_summary,
note_submit(d, text_all, files, ai, os) ==
  note_done(d, create_note(notes, title_of(text_all, ai.summary),
                           IF text_all # <<>> THEN text_all ELSE ai.summary,
                           parse_hashtags(text_all) \o ai.tags,
                           Get(d, "NOTE_IDS", EmptyDict), files, os[1], os[2], os[3]))
\* and the whole branch
commit_note(d, answer, os) ==
  note_submit(d, text_all_of(d), Get(d, "FILES", <<>>),
              ai_suggest_tags_and_summary(text_all_of(d), env.openai, answer), os)

\* a capture that persists as it collects: every text fragment is sent to the
\* notes database when it arrives, and the session keeps collecting
note_files_or_text_eager(d, m, answer, os) ==
  IF m.text = BACK THEN cmd_start(Pop(Pop(d, "FILES"), "TEXTBUF"))
  ELSE IF m.text = DONE THEN commit_note(d, answer, os)
  ELSE IF m.text # <<>>
  THEN [commit_note(Put(d, "TEXTBUF", Append(Get(d, "TEXTBUF", <<>>), Strip(m.text))),
                    answer, os)
        EXCEPT !.st = NOTE_FILES_OR_TEXT,
               !.ud = Put(d, "TEXTBUF", Append(Get(d, "TEXTBUF", <<>>), Strip(m.text))),
               !.out = <<>>]
  ELSE Res(NOTE_FILES_OR_TEXT, d, <<>>, <<>>)

note_files_or_text(d, m, answer, os) ==
  IF m.text = BACK THEN cmd_start(Pop(Pop(d, "FILES"), "TEXTBUF"))
  ELSE IF m.text = DONE THEN commit_note(d, answer, os)
  ELSE IF m.text # <<>>
  THEN Res(NOTE_FILES_OR_TEXT,
           Put(d, "TEXTBUF", Append(Get(d, "TEXTBUF", <<>>), Strip(m.text))),
           <<>>, <<>>)
  ELSE IF m.kind = "photo"
  THEN Res(NOTE_FILES_OR_TEXT, buffer_file(d, PHOTO_NAME, m.file, m.caption), <<>>, <<>>)
  ELSE IF m.kind = "document"
  THEN Res(NOTE_FILES_OR_TEXT,
           buffer_file(d, IF m.fname # <<>> THEN m.fname ELSE FILE_BIN, m.file, m.caption),
           <<>>, <<>>)
  ELSE Res(NOTE_FILES_OR_TEXT, d, <<Reply("accepted", kb_none)>>, <<>>)

\* ------------------------------------------------------------------- tasks
\* ensure_project(name) against the projects database, with the outcomes of
\* its query and of its create
ensure_project(store, name, o1, o2) ==
  LET hits == {i \in 1..Len(store) : store[i] = name}
      q == QueryCall("projects", [Name |-> name],
                     IF hits = {} THEN <<>> ELSE <<store[Min(hits)]>>, o1)
      c == CreateCall("projects", [Name |-> name], o2)
  IN  IF o1 # "ok" THEN [exc |-> o1, calls |-> <<q>>, id |-> None, store |-> store]
      ELSE IF hits # {}
      THEN [exc |-> "none", calls |-> <<q>>, id |-> Min(hits), store |-> store]
      ELSE IF o2 # "ok"
      THEN [exc |-> o2, calls |-> <<q, c>>, id |-> None, store |-> store]
      ELSE [exc |-> "none", calls |-> <<q, c>>, id |-> Len(store) + 1,
            store |-> Append(store, name)]

\* create_task(title, due, project_name); project_name is <<>> for None
create_task(title, due, project_name, os) ==
  LET linked == project_name # <<>> /\ env.projects_db
      ep     == ensure_project(projects, project_name, os[1], os[2])
      props  == [Name |-> Take(title, NAME_LIMIT), Status |-> "Todo", Due |-> due,
                 Project |-> IF linked THEN ep.id ELSE None]
      c      == CreateCall("tasks", props, os[3])
      before == IF linked THEN ep.calls ELSE <<>>
      pstore == IF linked THEN ep.store ELSE projects
  IN  IF ~env.tasks_db
      THEN [exc |-> "RuntimeError", calls |-> <<>>, projects |-> projects, tasks |-> tasks]
      ELSE IF linked /\ ep.exc # "none"
      THEN [exc |-> ep.exc, calls |-> before, projects |-> pstore, tasks |-> tasks]
      ELSE IF os[3] # "ok"
      THEN [exc |-> os[3], calls |-> Append(before, c), projects |-> pstore, tasks |-> tasks]
      ELSE [exc |-> "none", calls |-> Append(before, c), projects |-> pstore,
            tasks |-> Append(tasks, props)]

\* task_add_title without the assignment of line 750
task_add_title_unrecorded(d, t) ==
  IF t = BACK THEN cmd_start(d)
  ELSE Res(TASK_ADD_DUE, d, <<Reply("enter_due", kb_back)>>, <<>>)

task_add_title(d, t) ==
  IF t = BACK THEN cmd_start(d)
  ELSE Res(TASK_ADD_DUE, Put(d, "TASK_TITLE", t), <<Reply("enter_due", kb_back)>>, <<>>)

\* The two shapes of a deadline the handler parses, on zero-padded input:
\* YYYY-MM-DD (datetime.fromisoformat, at most 10 characters) and
\* YYYY-MM-DD HH:MM (strptime).
DigitsAt(t, S) == \A i \in S : IsDigit(t[i])
Num(t, a, b) == ToInt(SubSeq(t, a, b))
DaysIn(y, m) ==
  IF m \in {4, 6, 9, 11} THEN 30
  ELSE IF m # 2 THEN 31
  ELSE IF (y % 4 = 0 /\ y % 100 # 0) \/ y % 400 = 0 THEN 29 ELSE 28
is_date(t) ==
  /\ Len(t) >= 10 /\ DigitsAt(t, {1, 2, 3, 4, 6, 7, 9, 10}) /\ t[5] = "-" /\ t[8] = "-"
  /\ Num(t, 1, 4) >= 1 /\ Num(t, 6, 7) \in 1..12
  /\ Num(t, 9, 10) \in 1..DaysIn(Num(t, 1, 4), Num(t, 6, 7))
is_date_time(t) ==
  /\ Len(t) = 16 /\ is_date(t) /\ t[11] = " " /\ t[14] = ":"
  /\ DigitsAt(t, {12, 13, 15, 16}) /\ Num(t, 12, 13) <= 23 /\ Num(t, 15, 16) <= 59
parse_due(t) ==
  IF Len(t) <= 10
  THEN [ok |-> Len(t) = 10 /\ is_date(t), value |-> t \o <<" ","0","0",":","0","0">>]
  ELSE [ok |-> is_date_time(t), value |-> t]

task_add_due(d, t) ==
  LET p == parse_due(t)
  IN  IF t = BACK THEN cmd_start(d)
      ELSE IF t # <<>> /\ ~p.ok
      THEN Res(TASK_ADD_DUE, d, <<Reply("bad_due", kb_none)>>, <<>>)
      ELSE Res(TASK_ADD_PROJECT, Put(d, "TASK_DUE", IF t # <<>> THEN p.value ELSE <<>>),
               <<Reply("enter_project", kb_back)>>, <<>>)

task_add_project(d, proj, os) ==
  LET c == create_task(d["TASK_TITLE"], d["TASK_DUE"], proj, os)
  IN  IF proj = BACK THEN cmd_start(d)
      ELSE IF ~(Has(d, "TASK_TITLE") /\ Has(d, "TASK_DUE"))
      THEN Res(MENU, d, <<Reply("task_failed", kb_main)>>, <<>>)
      ELSE [Res(MENU, d,
                <<Reply(IF c.exc = "none" THEN "task_created" ELSE "task_failed", kb_main)>>,
                c.calls)
            EXCEPT !.projects = c.projects, !.tasks = c.tasks]

\* --------------------------------------------------------------- time logs
add_time_log(project_name, minutes, note, os) ==
  LET ep    == ensure_project(projects, project_name, os[1], os[2])
      props == [Project |-> ep.id, Minutes |-> minutes, Note |-> Take(note, BODY_LIMIT)]
      c     == CreateCall("timelog", props, os[3])
  IN  IF ~(env.timelog_db /\ env.projects_db)
      THEN [exc |-> "RuntimeError", calls |-> <<>>, projects |-> projects,
            timelogs |-> timelogs]
      ELSE IF ep.exc # "none"
      THEN [exc |-> ep.exc, calls |-> ep.calls, projects |-> ep.store,
            timelogs |-> timelogs]
      ELSE IF os[3] # "ok"
      THEN [exc |-> os[3], calls |-> Append(ep.calls, c), projects |-> ep.store,
            timelogs |-> timelogs]
      ELSE [exc |-> "none", calls |-> Append(ep.calls, c), projects |-> ep.store,
            timelogs |-> Append(timelogs, props)]

time_add_project(d, proj) ==
  IF proj = BACK THEN cmd_start(d)
  ELSE Res(TIME_ADD_MINUTES, Put(d, "TIME_PROJECT", proj),
           <<Reply("enter_duration", kb_back)>>, <<>>)

time_add_minutes(d, t) ==
  LET p == parse_duration(t)
  IN  IF t = BACK THEN cmd_start(d)
      ELSE IF ~p.ok THEN Res(TIME_ADD_MINUTES, d, <<Reply("bad_duration", kb_none)>>, <<>>)
      ELSE Res(TIME_ADD_NOTE, Put(d, "TIME_MIN", p.minutes),
               <<Reply("enter_time_note", kb_back)>>, <<>>)

time_add_note(d, note, os) ==
  LET c == add_time_log(d["TIME_PROJECT"], d["TIME_MIN"], note, os)
  IN  IF note = BACK THEN cmd_start(d)
      ELSE IF ~(Has(d, "TIME_PROJECT") /\ Has(d, "TIME_MIN"))
      THEN Res(MENU, d, <<Reply("time_failed", kb_main)>>, <<>>)
      ELSE [Res(MENU, d,
                <<Reply(IF c.exc = "none" THEN "time_logged" ELSE "time_failed", kb_main)>>,
                c.calls)
            EXCEPT !.projects = c.projects, !.timelogs = c.timelogs]

\* ------------------------------------------------------------------ search
\* the "contains" predicate of the store, on text
Contains(text, q) ==
  \E i \in 0..(Len(text) - Len(q)) : SubSeq(text, i + 1, i + Len(q)) = q
search_filter(q) ==
  {i \in 1..Len(notes) :
     \/ Contains(notes[i].properties["Name"], q)
     \/ Contains(notes[i].properties["Text"], q)
     \/ Lower(StripChars(q, {"#"})) \in Range(notes[i].properties["Tags"])}

search_enter(d, q, order, o) ==
  LET results == notion_query(notes, order, search_filter(q), 5)
      c == QueryCall("notes", [contains |-> q], results, o)
  IN  IF q = BACK THEN cmd_start(d)
      ELSE IF o # "ok" THEN Res(MENU, d, <<Reply("search_failed", kb_main)>>, <<c>>)
      ELSE IF results = <<>> THEN Res(MENU, d, <<Reply("nothing_found", kb_main)>>, <<c>>)
      ELSE Res(MENU, d, <<Reply("search_results", kb_main)>>, <<c>>)

\* ------------------------------------------------------------------ inputs
\* The chat sessions of the model.
Users == {"u1"}

\* What the deployment has configured: the optional databases and the AI key.
EnvConfigs ==
  { [tasks_db |-> TRUE,  timelog_db |-> TRUE,  projects_db |-> TRUE,  openai |-> FALSE],
    [tasks_db |-> FALSE, timelog_db |-> FALSE, projects_db |-> FALSE, openai |-> FALSE] }

\* names a user types for a new node, and a text that is no button and no name
NameTexts == { <<"a">> }
OtherText == <<"z">>

MenuTexts ==
  { BTN_CATEGORY, BTN_SUBCATEGORY, BTN_TOPIC, BTN_SUBTOPIC, BTN_NOTE, BTN_QUICK_NOTE,
    BTN_TASK, BTN_TIME, BTN_STATS, BTN_SEARCH, BTN_HELP, BTN_CANCEL, BACK, OtherText }
NameInputs   == NameTexts \cup {BACK}
\* what a user answers to a list: one of the names the list under `key`
\* offered, skip, back, or something else
ChoiceInputs(d, key) ==
  Range(Names(Get(d, key, <<>>))) \cup {SKIP, BACK, OtherText}
\* the records of a level of the catalog
AtLevels(Ls) == {i \in 1..Len(catalog) : catalog[i].level \in Ls}
\* What the catalog database may hold when the bot starts: nothing, one
\* category, or a branch with one node at each level.
SampleCatalogs ==
  { <<>>,
    << CatalogNode(1, <<"a">>, "Category", None) >>,
    << CatalogNode(1, <<"a">>, "Category", None),
       CatalogNode(2, <<"b">>, "Subcategory", 1),
       CatalogNode(3, <<"c">>, "Topic", 2),
       CatalogNode(4, <<"d">>, "Subtopic", 3) >> }
TitleInputs   == { <<"t">>, BACK }
ProjectInputs == { <<"p">>, BACK }
DueInputs ==
  { <<"2","0","2","5","-","0","8","-","1","5"," ","1","4",":","3","0">>,
    <<"2","0","2","5","-","0","2","-","3","0">>,
    BACK }
MinuteInputs == { <<"4","h">>, <<"a","b","c">>, <<"9","a">>, BACK }
TimeNoteInputs == { <<"n">>, BACK }
SearchInputs == { <<"x">>, BACK }
CaptureMsgs == { TextMsg(<<"x">>), TextMsg(DONE), TextMsg(BACK) }
\* The outcomes of the n remote calls a handler may make one after the other.
\* A handler stops at the first call that fails: the outcomes after a failure
\* are never consulted, and are fixed to "ok".
FailFast(n) ==
  {os \in [1..n -> Outcomes] : \A i, j \in 1..n : (i < j /\ os[i] # "ok") => os[j] = "ok"}
FailFast2 == FailFast(2)
FailFast3 == FailFast(3)
\* the outcomes of three calls, whatever the earlier ones did
AnyOutcomes3 == [1..3 -> Outcomes]
\* updates that may find no handler
StrayMsgs == { TextMsg(BACK), TextMsg(OtherText) }

\* ---------------------------------------------------------------- dispatch
\* Whether the ConversationHandler of build_app has a handler for update m of
\* a session in state s: /start is an entry point and re-entry is allowed,
\* /cancel is a fallback of a running conversation, the collecting state takes
\* text, photos and documents, every other registered state takes text.
Accepts(s, m) ==
  IF m.kind = "command"
  THEN IF m.text = CMD_START THEN TRUE
       ELSE m.text = CMD_CANCEL /\ s # NO_CONVERSATION
  ELSE IF s = NOTE_FILES_OR_TEXT THEN m.kind \in {"text", "photo", "document"}
  ELSE s \in RegisteredStates /\ m.kind = "text"

\* the entries a capture has buffered
FragCount(d) == Len(Get(d, "TEXTBUF", <<>>)) + Len(Get(d, "FILES", <<>>))

\* ----------------------------------------------------------------- actions
\* fn_in and fn_out while no function has been applied
Idle == [op |-> "none"]

Init ==
  /\ st = [u \in Users |-> NO_CONVERSATION]
  /\ ud = [u \in Users |-> EmptyDict]
  /\ catalog \in SampleCatalogs
  /\ notes = <<>>
  /\ projects = <<>>
  /\ tasks = <<>>
  /\ timelogs = <<>>
  /\ env \in EnvConfigs
  /\ lastIn = [user |-> "nobody", msg |-> NoMsg]
  /\ out = <<>>
  /\ calls = <<>>
  /\ exc = "none"
  /\ steps = 0
  /\ hist = [u \in Users |-> <<>>]
  /\ trail = [u \in Users |-> <<>>]
  /\ fn_in = Idle
  /\ update_queue = <<>>
  /\ running = NoHandler
  /\ fn_out = Idle

\* the session of u is in state s, and the run may take one more update
InState(u, s) == steps < MaxUpdates /\ st[u] = s

\* /start (entry point, any state) and /cancel (fallback) run cmd_start
CmdStart ==
  \E u \in Users, c \in {CMD_START, CMD_CANCEL} :
     /\ steps < MaxUpdates
     /\ Accepts(st[u], CommandMsg(c))
     /\ Apply(u, CommandMsg(c), cmd_start(ud[u]))

\* an update no handler takes: nothing runs, nothing is sent
Unhandled ==
  \E u \in Users, m \in StrayMsgs :
     /\ steps < MaxUpdates
     /\ ~Accepts(st[u], m)
     /\ Apply(u, m, Res(st[u], ud[u], <<>>, <<>>))

\* The remote calls a button of the menu makes at most: "note" lists the
\* categories and may resolve Inbox (a query and a create), "quick note"
\* resolves Inbox, the three deeper build buttons list the categories, the
\* statistics query the time log; the others make none.
MenuCalls(t) ==
  CASE t = BTN_NOTE -> 3
    [] t = BTN_QUICK_NOTE -> 2
    [] t \in {BTN_SUBCATEGORY, BTN_TOPIC, BTN_SUBTOPIC, BTN_STATS} -> 1
    [] OTHER -> 0
\* the outcomes and the return orders that a button can tell apart
OutcomesUpTo == [n \in 0..3 |-> {os \in FailFast3 : \A i \in 1..3 : i > n => os[i] = "ok"}]
MenuOutcomes(t) == OutcomesUpTo[MenuCalls(t)]
MenuOrders(t) ==
  ReturnOrders(Len(catalog),
               IF MenuCalls(t) = 0 \/ t = BTN_STATS THEN {} ELSE AtLevels({"Category"}))

MenuRouter ==
  \E u \in Users :
     /\ InState(u, MENU)
     /\ \E t \in MenuTexts :
        \E order \in MenuOrders(t), os \in MenuOutcomes(t) :
          Apply(u, TextMsg(t), menu_router(ud[u], Strip(t), order, os))

AddCat ==
  \E u \in Users :
     /\ InState(u, ADD_CAT)
     /\ \E t \in NameInputs,
          o \in Outcomes :
          Apply(u, TextMsg(t), add_cat(ud[u], Strip(t), o))

AddSub ==
  \E u \in Users :
     /\ InState(u, ADD_SUB)
     /\ \E t \in ChoiceInputs(ud[u], "L1") :
          Apply(u, TextMsg(t), add_sub(ud[u], Strip(t)))

AddSubName ==
  \E u \in Users :
     /\ InState(u, ADD_SUB + 100)
     /\ \E t \in NameInputs,
          o \in Outcomes :
          Apply(u, TextMsg(t), add_sub_name(ud[u], Strip(t), o))

AddTopic ==
  \E u \in Users :
     /\ InState(u, ADD_TOPIC)
     /\ \E t \in ChoiceInputs(ud[u], "L1"),
          order \in ReturnOrders(Len(catalog), AtLevels({"Subcategory"})),
          o \in Outcomes :
          Apply(u, TextMsg(t), add_topic(ud[u], Strip(t), order, o))

AddTopicNext ==
  \E u \in Users :
     /\ InState(u, ADD_TOPIC + 100)
     /\ \E t \in ChoiceInputs(ud[u], "L2") :
          Apply(u, TextMsg(t), add_topic_next(ud[u], Strip(t)))

AddTopicName ==
  \E u \in Users :
     /\ InState(u, ADD_TOPIC + 200)
     /\ \E t \in NameInputs,
          o \in Outcomes :
          Apply(u, TextMsg(t), add_topic_name(ud[u], Strip(t), o))

AddSubtopic ==
  \E u \in Users :
     /\ InState(u, ADD_SUBTOPIC)
     /\ \E t \in ChoiceInputs(ud[u], "L1"),
          order \in ReturnOrders(Len(catalog), AtLevels({"Category", "Subcategory"})),
          os \in FailFast2 :
          Apply(u, TextMsg(t), add_subtopic(ud[u], Strip(t), order, os))

\* add_subtopic_next returns ADD_SUBTOPIC + 200, a state with no handler: the
\* handlers add_subtopic_name and add_subtopic_create never run
AddSubtopicNext ==
  \E u \in Users :
     /\ InState(u, ADD_SUBTOPIC + 100)
     /\ \E t \in ChoiceInputs(ud[u], "L2"),
          order \in ReturnOrders(Len(catalog), AtLevels({"Topic"})),
          o \in Outcomes :
          Apply(u, TextMsg(t), add_subtopic_next(ud[u], Strip(t), order, o))

NotePickL1 ==
  \E u \in Users :
     /\ InState(u, NOTE_PICK_L1)
     /\ \E t \in ChoiceInputs(ud[u], "L1"),
          order \in ReturnOrders(Len(catalog), AtLevels({"Subcategory"})),
          o \in Outcomes :
          Apply(u, TextMsg(t), note_pick_l1(ud[u], Strip(t), order, o))

NotePickL2 ==
  \E u \in Users :
     /\ InState(u, NOTE_PICK_L2)
     /\ \E t \in ChoiceInputs(ud[u], "L2"),
          order \in ReturnOrders(Len(catalog), AtLevels({"Topic"})),
          o \in Outcomes :
          Apply(u, TextMsg(t), note_pick_l2(ud[u], Strip(t), order, o))

NotePickL3 ==
  \E u \in Users :
     /\ InState(u, NOTE_PICK_L3)
     /\ \E t \in ChoiceInputs(ud[u], "L3"),
          order \in ReturnOrders(Len(catalog), AtLevels({"Subtopic"})),
          o \in Outcomes :
          Apply(u, TextMsg(t), note_pick_l3(ud[u], Strip(t), order, o))

NotePickL4 ==
  \E u \in Users :
     /\ InState(u, NOTE_PICK_L4)
     /\ \E t \in ChoiceInputs(ud[u], "L4") :
          Apply(u, TextMsg(t), note_pick_l4(ud[u], Strip(t)))

\* note_files_or_text on an update drawn from Msgs
\* The answer of the AI collaborator and the outcomes of the requests are
\* consulted by the "done" branch only.
CollectAnswers(m) ==
  IF m.text = DONE /\ env.openai THEN AiAnswers ELSE {[tags |-> <<>>, summary |-> <<>>]}
CollectOutcomes(m) ==
  IF m.text = DONE THEN AnyOutcomes3 ELSE {[i \in 1..3 |-> "ok"]}
Collect(Msgs) ==
  \E u \in Users :
     /\ InState(u, NOTE_FILES_OR_TEXT)
     /\ \E m \in Msgs :
          /\ Accepts(st[u], m)
          /\ \E answer \in CollectAnswers(m), os \in CollectOutcomes(m) :
               LET r == note_files_or_text(ud[u], m, answer, os)
               IN  /\ FragCount(r.ud) <= MaxFrags
                   /\ Apply(u, m, r)
NoteFilesOrText == Collect(CaptureMsgs)

TaskAddTitle ==
  \E u \in Users :
     /\ InState(u, TASK_ADD_TITLE)
     /\ \E t \in TitleInputs :
          Apply(u, TextMsg(t), task_add_title(ud[u], Strip(t)))

TaskAddDue ==
  \E u \in Users :
     /\ InState(u, TASK_ADD_DUE)
     /\ \E t \in DueInputs :
          Apply(u, TextMsg(t), task_add_due(ud[u], Strip(t)))

TaskAddProject ==
  \E u \in Users :
     /\ InState(u, TASK_ADD_PROJECT)
     /\ \E t \in ProjectInputs,
          os \in FailFast3 :
          Apply(u, TextMsg(t), task_add_project(ud[u], Strip(t), os))

TimeAddProject ==
  \E u \in Users :
     /\ InState(u, TIME_ADD_PROJECT)
     /\ \E t \in ProjectInputs :
          Apply(u, TextMsg(t), time_add_project(ud[u], Strip(t)))

TimeAddMinutes ==
  \E u \in Users :
     /\ InState(u, TIME_ADD_MINUTES)
     /\ \E t \in MinuteInputs :
          Apply(u, TextMsg(t), time_add_minutes(ud[u], Strip(t)))

TimeAddNote ==
  \E u \in Users :
     /\ InState(u, TIME_ADD_NOTE)
     /\ \E t \in TimeNoteInputs,
          os \in FailFast3 :
          Apply(u, TextMsg(t), time_add_note(ud[u], Strip(t), os))

SearchEnter ==
  \E u \in Users :
     /\ InState(u, SEARCH_ENTER)
     /\ \E t \in SearchInputs,
          order \in ReturnOrders(Len(notes), 1..Len(notes)),
          o \in Outcomes :
          Apply(u, TextMsg(t), search_enter(ud[u], Strip(t), order, o))

Next ==
  \/ CmdStart
  \/ Unhandled
  \/ MenuRouter
  \/ AddCat
  \/ AddSub
  \/ AddSubName
  \/ AddTopic
  \/ AddTopicNext
  \/ AddTopicName
  \/ AddSubtopic
  \/ AddSubtopicNext
  \/ NotePickL1
  \/ NotePickL2
  \/ NotePickL3
  \/ NotePickL4
  \/ NoteFilesOrText
  \/ TaskAddTitle
  \/ TaskAddDue
  \/ TaskAddProject
  \/ TimeAddProject
  \/ TimeAddMinutes
  \/ TimeAddNote
  \/ SearchEnter

Spec == Init /\ [][Next]_vars

\* ------------------------------------------------- the collecting state
\* Fragments a user may send to a capture: the texts of the two examples of
\* the specification, a text with blanks around it, a line longer than the
\* title, a text longer than half the body, ten equal hashtags before a new
\* one; a photo, a captioned photo whose file has no path, a captioned document.
Line70   == Repeat(<<"w">>, TITLE_CUT + 10)
Body1000 == Repeat(<<"l">>, 1000)
Milk ==
  <<"b","u","y"," ","m","i","l","k"," ","#","t","o","d","o"," ","#","H","O","M","E">>
DupTags == Repeat(<<"#","a"," ">>, TAG_LIMIT) \o <<"#","b">>
\* two hashtags that differ after their first TAG_NAME_LIMIT characters only
LongTags ==
  <<"#">> \o Repeat(<<"a">>, TAG_NAME_LIMIT) \o <<"b", " ", "#">>
          \o Repeat(<<"a">>, TAG_NAME_LIMIT) \o <<"c">>
NoteMsgs ==
  { TextMsg(<<"f","i","r","s","t">>), TextMsg(<<"s","e","c","o","n","d">>),
    TextMsg(<<" ","y"," ">>), TextMsg(Line70), TextMsg(Body1000), TextMsg(Milk),
    TextMsg(DupTags),
    PhotoMsg(<<>>, <<"p",".","j","p","g">>), PhotoMsg(<<"c","a","p">>, <<>>),
    DocMsg(<<"d">>, <<"d","o","c">>, <<"f">>),
    TextMsg(DONE), TextMsg(BACK) }

\* The state after /start and "quick note" on an empty catalog: Inbox was
\* created, the capture is in the collecting state with empty buffers.
InitCapture ==
  LET ib == ensure_inbox_call(<<>>, <<>>, "ok", "ok")
  IN  /\ st = [u \in Users |-> NOTE_FILES_OR_TEXT]
      /\ ud = [u \in Users |-> start_capture(EmptyDict, ib.node.id)]
      /\ catalog = ib.catalog
      /\ notes = <<>>
      /\ projects = <<>>
      /\ tasks = <<>>
      /\ timelogs = <<>>
      /\ env \in { [tasks_db |-> FALSE, timelog_db |-> FALSE, projects_db |-> FALSE,
                    openai |-> ai] : ai \in BOOLEAN }
      /\ lastIn = [user |-> "u1", msg |-> TextMsg(BTN_QUICK_NOTE)]
      /\ out = <<Reply("send_content", kb_done)>>
      /\ calls = ib.calls
      /\ exc = "none"
      /\ steps = 2
      /\ hist = [u \in Users |-> <<>>]
      /\ trail = [u \in Users |-> <<[s |-> MENU, m |-> TextMsg(BTN_QUICK_NOTE)]>>]
      /\ fn_in = Idle
      /\ update_queue = <<>>
      /\ running = NoHandler
      /\ fn_out = Idle

CaptureNote == Collect(NoteMsgs)
NextCapture == CaptureNote
SpecCapture == InitCapture /\ [][NextCapture]_vars

\* ------------------------------------------------------------- find_nodes
\* Records of the catalogs find_nodes is applied to.
MaxListed == 3
SortNames == { <<"a">>, <<"B">>, <<"b">> }
\* The catalogs of at most MaxListed records: a category first, then
\* categories and subcategories of the first.
SortCatalogs ==
  UNION { { [i \in 1..n |-> CatalogNode(i, f[i][1],
                                        IF i = 1 THEN "Category" ELSE f[i][2],
                                        IF i > 1 /\ f[i][2] = "Subcategory" THEN 1 ELSE None)] :
            f \in [1..n -> SortNames \X {"Category", "Subcategory"}] } :
          n \in 0..MaxListed }

InitSort ==
  /\ st = [u \in Users |-> NO_CONVERSATION]
  /\ ud = [u \in Users |-> EmptyDict]
  /\ catalog \in SortCatalogs
  /\ notes = <<>>
  /\ projects = <<>>
  /\ tasks = <<>>
  /\ timelogs = <<>>
  /\ env \in EnvConfigs
  /\ lastIn = [user |-> "nobody", msg |-> NoMsg]
  /\ out = <<>>
  /\ calls = <<>>
  /\ exc = "none"
  /\ steps = 0
  /\ hist = [u \in Users |-> <<>>]
  /\ trail = [u \in Users |-> <<>>]
  /\ fn_in = Idle
  /\ update_queue = <<>>
  /\ running = NoHandler
  /\ fn_out = Idle

\* find_nodes(level, parent_id) on the catalog, the store returning the
\* matching records in any order
FindNodes ==
  \E level \in {"Category", "Subcategory"}, parent_id \in {None, 1},
     order \in Orders(Len(catalog)) :
     LET returned == notion_query(catalog, order,
                                  find_nodes_filter(catalog, level, parent_id), PAGE_SIZE)
     IN  /\ fn_in' = [op |-> "find_nodes", level |-> level, parent_id |-> parent_id,
                      returned |-> returned]
         /\ fn_out' = [op |-> "find_nodes", nodes |-> find_nodes(returned)]
         /\ UNCHANGED <<st, ud, catalog, notes, projects, tasks, timelogs, env, lastIn,
                        out, calls, exc, steps, hist, trail, update_queue, running>>
NextSort == FindNodes
SpecSort == InitSort /\ [][NextSort]_vars

\* --------------------------------------------------------- parse_duration
DurationChars == { "1", "0", "h", "m", ":", "a", " " }
\* the strings of at most MaxDurLen of these characters, and the examples
DurationInputs ==
  UNION { [1..n -> DurationChars] : n \in 0..MaxDurLen }
  \cup { <<"4","h">>, <<"3","0","m">>, <<"1",":","2","0">>, <<"9","0">>,
         <<"a","b","c">>, <<"9","a">> }

InitDuration ==
  /\ st = [u \in Users |-> NO_CONVERSATION]
  /\ ud = [u \in Users |-> EmptyDict]
  /\ catalog = <<>>
  /\ notes = <<>>
  /\ projects = <<>>
  /\ tasks = <<>>
  /\ timelogs = <<>>
  /\ env = [tasks_db |-> FALSE, timelog_db |-> FALSE, projects_db |-> FALSE, openai |-> FALSE]
  /\ lastIn = [user |-> "nobody", msg |-> NoMsg]
  /\ out = <<>>
  /\ calls = <<>>
  /\ exc = "none"
  /\ steps = 0
  /\ hist = [u \in Users |-> <<>>]
  /\ trail = [u \in Users |-> <<>>]
  /\ fn_in = Idle
  /\ update_queue = <<>>
  /\ running = NoHandler
  /\ fn_out = Idle

ParseDuration ==
  \E s \in DurationInputs :
     /\ fn_in' = [op |-> "parse_duration", s |-> s]
     /\ fn_out' = [op |-> "parse_duration", r |-> parse_duration(s)]
     /\ UNCHANGED <<st, ud, catalog, notes, projects, tasks, timelogs, env, lastIn,
                    out, calls, exc, steps, hist, trail, update_queue, running>>
NextDuration == ParseDuration
SpecDuration == InitDuration /\ [][NextDuration]_vars

\* ================================================================ properties
\* the one user of the enumerated runs
U == CHOOSE u \in Users : TRUE

\* an update was processed by this step
Processed == steps' = steps + 1
\* the step processed the back-to-menu text of user u
BackFrom(u) ==
  Processed /\ lastIn'.user = u /\ lastIn'.msg = TextMsg(BACK)
\* the keyboard of the last reply of the step
LastKb(replies) == replies[Len(replies)].kb

\* ---- C1
\* the records of the catalog that a create request describes
Described(cat, c) ==
  {k \in 1..Len(cat) : /\ cat[k].name = c.properties.Name
                       /\ cat[k].level = c.properties.Level
                       /\ cat[k].parent_id = c.properties.Parent}
\* C1: ensure_node is idempotent: after a node was resolved, the catalog holds
\* exactly one record with its name, level and parent; a node that existed
\* already is returned and nothing is created.
C1_EnsureNodeIdempotent ==
  \A i \in 1..Len(calls) :
     (calls[i].op = "create_page" /\ calls[i].db = "catalog" /\ calls[i].outcome = "ok")
       => Cardinality(Described(catalog, calls[i])) = 1

\* ---- C9
\* C9: in every conversation state a handler can return, a text message
\* carrying the back-to-menu label is taken and moves the session to MENU.
C9_BackReachesMenu ==
  [][\A u \in Users : (BackFrom(u) /\ st[u] # NO_CONVERSATION) => st'[u] = MENU]_vars

\* ---- C2
\* the states in the middle of a workflow
MidWorkflow(s) == s # NO_CONVERSATION /\ s # MENU
\* C2: cancel resets fully: from any mid-workflow state the back-to-menu label
\* leads to MENU, and a capture that is started enters the collecting state
\* with an empty text buffer and an empty file buffer.
C2_CancelResets ==
  [][\A u \in Users :
       /\ (BackFrom(u) /\ MidWorkflow(st[u])) => st'[u] = MENU
       /\ (Processed /\ lastIn'.user = u /\ st[u] # NOTE_FILES_OR_TEXT
             /\ st'[u] = NOTE_FILES_OR_TEXT)
            => (Get(ud'[u], "TEXTBUF", <<>>) = <<>> /\ Get(ud'[u], "FILES", <<>>) = <<>>)]_vars

\* ---- C10
\* C10: after the back-to-menu label was processed in a conversation state, the
\* session holds no in-progress data: user_data has no key left.
C10_BackDiscardsAll ==
  [][\A u \in Users :
       (BackFrom(u) /\ Accepts(st[u], TextMsg(BACK))) => DOMAIN ud'[u] = {}]_vars

\* ---- C5
\* the states of the note descent below the category
SkipLevels == {NOTE_PICK_L2, NOTE_PICK_L3, NOTE_PICK_L4}
\* the node a skipped level leaves as the parent of the next listing
LastChosen(ids) == IF ids.sub # None THEN ids.sub ELSE ids.cat
\* the step took "skip" in state s of user u and the handler returned
Skipped(u, s) ==
  /\ Processed
  /\ lastIn'.user = u
  /\ st[u] = s
  /\ lastIn'.msg = TextMsg(SKIP)
  /\ exc' = "none"
\* choosing skip does not advance the parent reference: the next level is
\* listed under the last node chosen, and the note path is left as it was
SkipKeepsParent(u) ==
  /\ Skipped(u, NOTE_PICK_L2)
       => (calls'[1].properties.Parent = ud[u]["NOTE_IDS"].cat
           /\ ud'[u]["NOTE_IDS"] = ud[u]["NOTE_IDS"])
  /\ Skipped(u, NOTE_PICK_L3)
       => (calls'[1].properties.Parent = LastChosen(ud[u]["NOTE_IDS"])
           /\ ud'[u]["NOTE_IDS"] = ud[u]["NOTE_IDS"])
  /\ Skipped(u, NOTE_PICK_L4) => ud'[u]["NOTE_IDS"] = ud[u]["NOTE_IDS"]
\* the step prompted user u for a choice in one of the states S
Prompted(u, S) ==
  Processed /\ lastIn'.user = u /\ st'[u] \in S /\ exc' = "none" /\ out' # <<>>
AscendingByLowerName(nodes) ==
  \A i \in 1..(Len(nodes) - 1) : StrLeq(Lower(nodes[i].name), Lower(nodes[i + 1].name))
\* nodes are the pages, each once
SameRecords(nodes, pages) ==
  /\ Len(nodes) = Len(pages)
  /\ \E p \in Orders(Len(pages)) :
        \A i \in 1..Len(pages) : nodes[i] = page_to_node(pages[p[i]])
\* C6: whatever the order in which the store returns the matching records,
\* find_nodes returns exactly those records, ascending by lower-cased name.
C6_SortedByLowerName ==
  fn_out.op = "find_nodes"
    => (AscendingByLowerName(fn_out.nodes) /\ SameRecords(fn_out.nodes, fn_in.returned))
\* C6 witness: the store returned b, a, B and find_nodes answered a, b, B
C6_Witness ==
  /\ fn_out.op = "find_nodes"
  /\ Names(fn_in.returned) = << <<"b">>, <<"a">>, <<"B">> >>
  /\ Names(fn_out.nodes) = << <<"a">>, <<"b">>, <<"B">> >>

\* ---- C8
\* one or more digits
Number(s) == s # <<>> /\ AllDigits(s)
\* hours with 'h': digits, then 'h'
IsHours(s) == Len(s) >= 2 /\ s[Len(s)] = "h" /\ Number(Strip(SubSeq(s, 1, Len(s) - 1)))
\* minutes with optional 'm', plain digits included
IsMinutes(s) ==
  Number(s) \/ (Len(s) >= 2 /\ s[Len(s)] = "m" /\ Number(Strip(SubSeq(s, 1, Len(s) - 1))))
\* the recognised formats: H:MM, hours, minutes, hours then minutes
Recognised(str) ==
  LET s == Lower(Strip(str))
  IN  \/ matches_h_mm(s)
      \/ IsHours(s)
      \/ IsMinutes(s)
      \/ \E k \in 2..(Len(s) - 1) :
            IsHours(SubSeq(s, 1, k)) /\ IsMinutes(Strip(SubSeq(s, k + 1, Len(s))))
\* C8: parse_duration answers 240 for "4h", 30 for "30m", 80 for "1:20" and 90
\* for "90", and raises for every string that is in none of the recognised
\* formats.
C8_DurationParsing ==
  fn_out.op = "parse_duration"
    => /\ fn_in.s = <<"4","h">> => fn_out.r = Parsed(240)
       /\ fn_in.s = <<"3","0","m">> => fn_out.r = Parsed(30)
       /\ fn_in.s = <<"1",":","2","0">> => fn_out.r = Parsed(80)
       /\ fn_in.s = <<"9","0">> => fn_out.r = Parsed(90)
       /\ ~Recognised(fn_in.s) => fn_out.r = ValueError

\* ---- C3, C4, C7: the committed note
\* the fragments of a capture: what was sent before "done"
Fragments(h) == SubSeq(h, 1, Len(h) - 1)
\* "done" was processed for a capture of user u: calls holds the requests of
\* create_note
Committed(u) ==
  /\ lastIn.user = u
  /\ lastIn.msg = TextMsg(DONE)
  /\ hist[u] # <<>>
  /\ hist[u][Len(hist[u])] = TextMsg(DONE)
  /\ calls # <<>>
  /\ calls[1].db = "notes"
\* the first request of the commit
Submitted == calls[1].properties
SubmittedFiles == Get(Submitted, "Files", <<>>)
IsFile(m) == m.kind \in {"photo", "document"}
FileName(m) ==
  IF m.kind = "photo" THEN PHOTO_NAME ELSE IF m.fname # <<>> THEN m.fname ELSE FILE_BIN
AsFile(m) == FileRef(FileName(m), URL_PREFIX \o m.file)
MapSeq(F(_), q) == [i \in 1..Len(q) |-> F(q[i])]

\* the text a fragment adds: a text message its text without the blanks around
\* it, a photo or a document its caption
HasText(m) == m.kind = "text" \/ (IsFile(m) /\ m.caption # <<>>)
TextOf(m) == IF m.kind = "text" THEN Strip(m.text) ELSE m.caption
Resolved(m) == IsFile(m) /\ m.file # <<>>
AccumulatedText(h) ==
  Take(Join(MapSeq(TextOf, SelectSeq(Fragments(h), HasText)), <<"\n">>), BODY_LIMIT)
\* C3: capture accumulation: the text of the submitted note is the newline-join,
\* cut to the body limit, of the stripped text fragments and the captions in
\* arrival order; its files are the file fragments whose path was resolved, in
\* arrival order; its title is the first line of that text cut to 60
\* characters, or the fallback literal when that line is empty.
C3_Accumulation ==
  \A u \in Users :
     Committed(u) =>
       /\ Submitted.Text = AccumulatedText(hist[u])
       /\ SubmittedFiles = MapSeq(AsFile, SelectSeq(Fragments(hist[u]), Resolved))
       /\ Submitted.Name =
            (IF Take(FirstLine(AccumulatedText(hist[u])), TITLE_CUT) # <<>>
             THEN Take(FirstLine(AccumulatedText(hist[u])), TITLE_CUT)
             ELSE NOTE_TITLE)

\* the text fragments as they arrived
IsText(m) == m.kind = "text"
Verbatim(m) == m.text
VerbatimText(h) ==
  Take(Join(MapSeq(Verbatim, SelectSeq(Fragments(h), IsText)), <<"\n">>), BODY_LIMIT)
\* C3 (as stated): the text is the newline-join of the text fragments, the
\* files are exactly the file fragments, the title is the first line of the
\* text or the fallback literal when there is no text.
C3_AsStated ==
  \A u \in Users :
     Committed(u) =>
       /\ Submitted.Text = VerbatimText(hist[u])
       /\ Len(SubmittedFiles) = Len(SelectSeq(Fragments(hist[u]), IsFile))
       /\ Submitted.Name =
            (IF VerbatimText(hist[u]) # <<>> THEN FirstLine(VerbatimText(hist[u]))
             ELSE NOTE_TITLE)
\* C3 witness: "first", "second", a photo, done
C3_Witness ==
  /\ Committed(U)
  /\ hist[U] = << TextMsg(<<"f","i","r","s","t">>), TextMsg(<<"s","e","c","o","n","d">>),
                  PhotoMsg(<<>>, <<"p",".","j","p","g">>), TextMsg(DONE) >>
  /\ Submitted.Text = <<"f","i","r","s","t","\n","s","e","c","o","n","d">>
  /\ Len(SubmittedFiles) = 1
  /\ Submitted.Name = <<"f","i","r","s","t">>

\* ---- C4
\* C4: when the first create request, carrying Files, is rejected, one more
\* create request is sent, without Files; when that succeeds, the blocks are
\* appended by a follow-up call to the record the retry created, whose id is
\* returned.
C4_RetryWithoutFiles ==
  \A u \in Users :
     (Committed(u) /\ Has(Submitted, "Files") /\ calls[1].outcome = "http_error")
       => /\ Len(calls) >= 2
          /\ calls[2].op = "create_page"
          /\ ~Has(calls[2].properties, "Files")
          /\ \A i \in 3..Len(calls) : calls[i].op # "create_page"
          /\ calls[2].outcome = "ok"
               => /\ Len(calls) = 3
                  /\ calls[3].op = "append_children"
                  /\ calls[3].children = calls[1].children
                  /\ calls[3].page = Len(notes)
                  /\ notes[Len(notes)].properties = calls[2].properties

\* ---- C7
\* every hashtag token of a text, without the '#' and lower-cased
Tokens(text) ==
  LET at == Ascending(hashtag_starts(text))
  IN  [k \in 1..Len(at) |-> Lower(SubSeq(text, at[k] + 1, RunEnd(text, at[k] + 1, IsWord)))]
\* the distinct entries of a sequence, in order of first appearance
Distinct(q) ==
  LET firsts == Ascending({k \in 1..Len(q) : \A j \in 1..(k - 1) : q[j] # q[k]})
  IN  [i \in 1..Len(firsts) |-> q[firsts[i]]]
\* C7: with no AI tagging configured, the tags of the submitted note are the
\* distinct hashtag tokens of the accumulated text, without the '#' and
\* lower-cased, in order of first appearance, at most 10.
C7_TagsDistinctFirstTen ==
  \A u \in Users :
     (Committed(u) /\ ~env.openai)
       => Submitted.Tags = Take(Distinct(Tokens(Submitted.Text)), TAG_LIMIT)

\* ---- C11
\* the step processed "done" of user u in the collecting state
DoneFrom(u) ==
  /\ Processed
  /\ lastIn'.user = u
  /\ st[u] = NOTE_FILES_OR_TEXT
  /\ lastIn'.msg = TextMsg(DONE)
\* C11: commit always releases the capture: once "done" was processed in the
\* collecting state, whether create_note returned or raised, the session is in
\* MENU and holds neither the text buffer nor the file buffer.
C11_CommitReleases ==
  [][\A u \in Users :
       DoneFrom(u) => /\ st'[u] = MENU
                      /\ exc' = "none"
                      /\ ~Has(ud'[u], "TEXTBUF")
                      /\ ~Has(ud'[u], "FILES")]_vars
\* C11 witness: a capture with a text and a file whose creation failed: the
\* failure was reported, the session is in MENU without the buffers
C11_Witness ==
  /\ Committed(U)
  /\ Len(hist[U]) = 3
  /\ calls[Len(calls)].outcome # "ok"
  /\ out = <<Reply("save_failed", kb_main)>>
  /\ st[U] = MENU
  /\ ~Has(ud[U], "TEXTBUF")
  /\ ~Has(ud[U], "FILES")

\* ---- C12
\* the commit went the degraded way: the first create was rejected
Degraded == Len(calls) >= 2 /\ calls[1].outcome = "http_error"
\* C12: no silent partial commit: when the degraded path fails at one of its
\* calls, the failure is reported, the session is cleared, and the notes
\* database holds no record of the note.
C12_NoPartialCommit ==
  \A u \in Users :
     (Committed(u) /\ Degraded /\ calls[Len(calls)].outcome # "ok")
       => /\ out = <<Reply("save_failed", kb_main)>>
          /\ st[u] = MENU
          /\ ~Has(ud[u], "TEXTBUF")
          /\ ~Has(ud[u], "FILES")
          /\ notes = <<>>

\* ---- C13
\* a call to the catalog made by the step failed
CatalogCallFailed ==
  \E i \in 1..Len(calls') : calls'[i].db = "catalog" /\ calls'[i].outcome # "ok"
\* C13: when a catalog call (find_nodes, ensure_node, ensure_inbox_category) of
\* a Build step or of a note-descent step fails, the step is aborted, the user
\* receives a failure message and the session is in MENU.
C13_CatalogFailureToMenu ==
  [][\A u \in Users :
       (Processed /\ lastIn'.user = u /\ CatalogCallFailed)
         => (st'[u] = MENU /\ out' # <<>>)]_vars

\* ---- C14
\* the terminal steps of the task and the time-log workflow
TerminalSteps == {TASK_ADD_PROJECT, TIME_ADD_NOTE}
\* C14: when the remote call of a terminal step of the task or the time-log
\* workflow fails, the user gets a failure message, the buffered inputs stay
\* and the session stays at that step.
C14_TerminalStepRetry ==
  [][\A u \in Users :
       (Processed /\ lastIn'.user = u /\ st[u] \in TerminalSteps
          /\ \E i \in 1..Len(calls') : calls'[i].outcome # "ok")
         => (out' # <<>> /\ ud'[u] = ud[u] /\ st'[u] = st[u])]_vars

\* ---- C15
\* the selection steps and the list each offers
SelectionSteps ==
  { ADD_SUB, ADD_TOPIC, ADD_TOPIC + 100, ADD_SUBTOPIC, ADD_SUBTOPIC + 100,
    NOTE_PICK_L1, NOTE_PICK_L2, NOTE_PICK_L3, NOTE_PICK_L4 }
OfferedKey(s) ==
  IF s \in {ADD_SUB, ADD_TOPIC, ADD_SUBTOPIC, NOTE_PICK_L1} THEN "L1"
  ELSE IF s \in {ADD_TOPIC + 100, ADD_SUBTOPIC + 100, NOTE_PICK_L2} THEN "L2"
  ELSE IF s = NOTE_PICK_L3 THEN "L3" ELSE "L4"
\* the reply t matches no choice offered in state s of a session with data d
Unmatched(s, d, t) ==
  /\ s \in SelectionSteps
  /\ ~(t \in {SKIP, BACK})
  /\ ~(t \in Range(Names(Get(d, OfferedKey(s), <<>>))))
\* the reply t is in no recognised format of the step s
BadFormat(s, t) ==
  /\ t # BACK
  /\ \/ s = TIME_ADD_MINUTES /\ ~Recognised(t)
     \/ s = TASK_ADD_DUE /\ t # <<>> /\ ~(Len(t) = 10 /\ is_date(t)) /\ ~is_date_time(t)
\* the step wrote nothing to the remote store
NoRemoteWrite ==
  /\ \A i \in 1..Len(calls') : calls'[i].op = "query"
  /\ UNCHANGED <<catalog, notes, projects, tasks, timelogs>>
\* C15: a reply that matches none of the offered choices at a selection step,
\* or that is in no recognised format at the duration and the due-date step,
\* leaves the conversation state and the user data as they were and writes
\* nothing to the remote store.
C15_RepromptKeepsState ==
  [][\A u \in Users :
       (Processed /\ lastIn'.user = u /\ lastIn'.msg.kind = "text"
          /\ (\/ Unmatched(st[u], ud[u], Strip(lastIn'.msg.text))
              \/ BadFormat(st[u], Strip(lastIn'.msg.text))))
         => (st'[u] = st[u] /\ ud'[u] = ud[u] /\ NoRemoteWrite)]_vars

\* ------------------------------------------------- ensure_inbox_category
\* Calls of ensure_inbox_category in one sequence.
MaxInboxCalls == 3
\* names of the categories created before the sequence
InboxNames == { INBOX, <<"a">> }

\* The catalog is empty; no resolver has run.
InitInbox ==
  /\ st = [u \in Users |-> NO_CONVERSATION]
  /\ ud = [u \in Users |-> EmptyDict]
  /\ catalog = <<>>
  /\ notes = <<>>
  /\ projects = <<>>
  /\ tasks = <<>>
  /\ timelogs = <<>>
  /\ env = [tasks_db |-> FALSE, timelog_db |-> FALSE, projects_db |-> FALSE, openai |-> FALSE]
  /\ lastIn = [user |-> "nobody", msg |-> NoMsg]
  /\ out = <<>>
  /\ calls = <<>>
  /\ exc = "none"
  /\ steps = 0
  /\ hist = [u \in Users |-> <<>>]
  /\ trail = [u \in Users |-> <<>>]
  /\ fn_in = Idle
  /\ update_queue = <<>>
  /\ running = NoHandler
  /\ fn_out = Idle

\* ensure_node(name, "Category", None), as the "category" workflow calls it,
\* before the sequence of ensure_inbox_category calls starts
EnsureNode ==
  \E name \in InboxNames :
     /\ fn_out.op = "none"
     /\ Len(catalog) < MaxNodes
     /\ catalog' = ensure_node(catalog, name, "Category", None).catalog
     /\ UNCHANGED <<st, ud, notes, projects, tasks, timelogs, env, lastIn, out, calls,
                    exc, steps, hist, trail, fn_in, fn_out, update_queue, running>>

\* the ids returned and the records created by the calls made so far
InboxIds == IF fn_out.op = "none" THEN <<>> ELSE fn_out.ids
InboxCreated == IF fn_out.op = "none" THEN <<>> ELSE fn_out.created
\* one more call of ensure_inbox_category(), the store returning the matching
\* records in any order
EnsureInbox ==
  \E order \in Orders(Len(catalog)) :
     LET r == ensure_inbox_category(catalog,
                                    notion_query(catalog, order, inbox_filter(catalog), 1))
     IN  /\ Len(InboxIds) < MaxInboxCalls
         /\ Len(r.catalog) <= MaxNodes
         /\ catalog' = r.catalog
         /\ fn_in' = [op |-> "ensure_inbox_category"]
         /\ fn_out' = [op |-> "ensure_inbox_category",
                       ids |-> Append(InboxIds, r.node.id),
                       created |-> IF r.created THEN Append(InboxCreated, r.node)
                                   ELSE InboxCreated]
         /\ UNCHANGED <<st, ud, notes, projects, tasks, timelogs, env, lastIn, out,
                        calls, exc, steps, hist, trail, update_queue, running>>
NextInbox == EnsureNode \/ EnsureInbox
SpecInbox == InitInbox /\ [][NextInbox]_vars

\* ---- C16
\* C16: the calls of ensure_inbox_category made one after the other all return
\* the same node id, and together create at most one record, a Category named
\* Inbox with no parent.
C16_InboxResolvedOnce ==
  fn_out.op = "ensure_inbox_category"
    => /\ \A i, j \in 1..Len(fn_out.ids) : fn_out.ids[i] = fn_out.ids[j]
       /\ Len(fn_out.created) <= 1
       /\ \A i \in 1..Len(fn_out.created) :
            fn_out.created[i] = CatalogNode(fn_out.created[i].id, INBOX, "Category", None)

\* ---- C17
\* the index of a level: Category 0, Subcategory 1, Topic 2, Subtopic 3
LevelIndex(level) == (CHOOSE i \in 1..Len(Levels) : Levels[i] = level) - 1
\* the number of parent references from node n to a root, following at most
\* fuel of them; -1 when no root is reached (a cycle)
RECURSIVE ChainLength(_, _, _)
ChainLength(cat, n, fuel) ==
  IF n.parent_id = None THEN 0
  ELSE IF fuel = 0 THEN -1
  ELSE LET up == ChainLength(cat, cat[n.parent_id], fuel - 1)
       IN  IF up = -1 THEN -1 ELSE up + 1
\* C17: for every node of the catalog the chain of parent references to the
\* root is acyclic and as long as the node's level index, and every node that
\* is not a Category has a parent.
C17_TreeDepth ==
  \A i \in 1..Len(catalog) :
     /\ ChainLength(catalog, catalog[i], Len(catalog)) = LevelIndex(catalog[i].level)
     /\ catalog[i].level # "Category" => catalog[i].parent_id # None

\* ---- C18
\* the step sent a request that creates or extends a record of the notes
\* database
NoteRequested ==
  \E i \in 1..Len(calls') :
     calls'[i].db = "notes" /\ calls'[i].op \in {"create_page", "append_children"}
\* C18: a request that creates a note is sent, and a note record comes into
\* existence, only in the step that processes the done signal of a session in
\* the collecting state.
C18_NoNoteBeforeCommit ==
  [][(NoteRequested \/ notes' # notes) => \E u \in Users : DoneFrom(u)]_vars
\* a capture that went through the choice of a category and collected a
\* fragment was committed: the note exists, and it did not before the done step
C18_Witness ==
  /\ Committed(U)
  /\ Len(hist[U]) >= 2
  /\ Has(ud[U], "NOTE_IDS")
  /\ Get(ud[U], "NOTE_IDS", EmptyDict).cat # None
  /\ calls[1].op = "create_page"
  /\ calls[1].outcome = "ok"
  /\ Len(notes) = 1
  /\ st[U] = MENU

\* ------------------------------------------------------------ two sessions
\* Two users talk to the bot; the dispatcher takes their updates one at a
\* time, in any order.
Sessions == {"u1", "u2"}
\* Updates the two users send in all.
MaxSessionUpdates == 6
SessionMenuTexts == { BTN_NOTE, BTN_QUICK_NOTE }
SessionNoteMsgs == { TextMsg(<<"x">>), TextMsg(<<"y">>), TextMsg(DONE), TextMsg(BACK) }
OkOutcomes == [i \in 1..3 |-> "ok"]
NoAnswer == [tags |-> <<>>, summary |-> <<>>]

\* No conversation is running; the catalog holds one branch.
InitSessions ==
  /\ st = [u \in Sessions |-> NO_CONVERSATION]
  /\ ud = [u \in Sessions |-> EmptyDict]
  /\ catalog = << CatalogNode(1, <<"a">>, "Category", None),
                  CatalogNode(2, <<"b">>, "Subcategory", 1),
                  CatalogNode(3, <<"c">>, "Topic", 2),
                  CatalogNode(4, <<"d">>, "Subtopic", 3) >>
  /\ notes = <<>>
  /\ projects = <<>>
  /\ tasks = <<>>
  /\ timelogs = <<>>
  /\ env = [tasks_db |-> FALSE, timelog_db |-> FALSE, projects_db |-> FALSE, openai |-> FALSE]
  /\ lastIn = [user |-> "nobody", msg |-> NoMsg]
  /\ out = <<>>
  /\ calls = <<>>
  /\ exc = "none"
  /\ steps = 0
  /\ hist = [u \in Sessions |-> <<>>]
  /\ trail = [u \in Sessions |-> <<>>]
  /\ fn_in = Idle
  /\ update_queue = <<>>
  /\ running = NoHandler
  /\ fn_out = Idle

SessionIn(u, s) == steps < MaxSessionUpdates /\ st[u] = s

SessionStart ==
  \E u \in Sessions :
     /\ steps < MaxSessionUpdates
     /\ Apply(u, CommandMsg(CMD_START), cmd_start(ud[u]))

SessionMenu ==
  \E u \in Sessions :
     /\ SessionIn(u, MENU)
     /\ \E t \in SessionMenuTexts :
        \E order \in MenuOrders(t) :
          Apply(u, TextMsg(t), menu_router(ud[u], Strip(t), order, OkOutcomes))

SessionPickL1 ==
  \E u \in Sessions :
     /\ SessionIn(u, NOTE_PICK_L1)
     /\ \E t \in ChoiceInputs(ud[u], "L1"),
          order \in ReturnOrders(Len(catalog), AtLevels({"Subcategory"})) :
          Apply(u, TextMsg(t), note_pick_l1(ud[u], Strip(t), order, "ok"))

SessionPickL2 ==
  \E u \in Sessions :
     /\ SessionIn(u, NOTE_PICK_L2)
     /\ \E t \in ChoiceInputs(ud[u], "L2"),
          order \in ReturnOrders(Len(catalog), AtLevels({"Topic"})) :
          Apply(u, TextMsg(t), note_pick_l2(ud[u], Strip(t), order, "ok"))

SessionPickL3 ==
  \E u \in Sessions :
     /\ SessionIn(u, NOTE_PICK_L3)
     /\ \E t \in ChoiceInputs(ud[u], "L3"),
          order \in ReturnOrders(Len(catalog), AtLevels({"Subtopic"})) :
          Apply(u, TextMsg(t), note_pick_l3(ud[u], Strip(t), order, "ok"))

SessionPickL4 ==
  \E u \in Sessions :
     /\ SessionIn(u, NOTE_PICK_L4)
     /\ \E t \in ChoiceInputs(ud[u], "L4") :
          Apply(u, TextMsg(t), note_pick_l4(ud[u], Strip(t)))

SessionCollect ==
  \E u \in Sessions :
     /\ SessionIn(u, NOTE_FILES_OR_TEXT)
     /\ \E m \in SessionNoteMsgs :
          Apply(u, m, note_files_or_text(ud[u], m, NoAnswer, OkOutcomes))

NextSessions ==
  \/ SessionStart
  \/ SessionMenu
  \/ SessionPickL1
  \/ SessionPickL2
  \/ SessionPickL3
  \/ SessionPickL4
  \/ SessionCollect
SpecSessions == InitSessions /\ [][NextSessions]_vars

MaxLoopUpdates == 5
LoopMsgs == { CommandMsg(CMD_START), TextMsg(BTN_CATEGORY), TextMsg(<<"a">>) }
\* the updates sent so far: processed, being processed, waiting
Sent == steps + Len(update_queue) + (IF running = NoHandler THEN 0 ELSE 1)

InitLoop ==
  /\ st = [u \in Sessions |-> NO_CONVERSATION]
  /\ ud = [u \in Sessions |-> EmptyDict]
  /\ catalog = <<>>
  /\ notes = <<>>
  /\ projects = <<>>
  /\ tasks = <<>>
  /\ timelogs = <<>>
  /\ env = [tasks_db |-> FALSE, timelog_db |-> FALSE, projects_db |-> FALSE, openai |-> FALSE]
  /\ lastIn = [user |-> "nobody", msg |-> NoMsg]
  /\ out = <<>>
  /\ calls = <<>>
  /\ exc = "none"
  /\ steps = 0
  /\ hist = [u \in Sessions |-> <<>>]
  /\ trail = [u \in Sessions |-> <<>>]
  /\ fn_in = Idle
  /\ update_queue = <<>>
  /\ running = NoHandler
  /\ fn_out = Idle

\* whether the handler of update m in state s calls the remote store: of the
\* handlers of this specification, add_cat does, through ensure_node
MakesCall(s, m) == Accepts(s, m) /\ m.kind = "text" /\ s = ADD_CAT /\ Strip(m.text) # BACK
\* the handler the ConversationHandler picks for update m of user u, run to
\* its end, o being the outcome of its remote call
LoopHandler(u, m, o) ==
  IF ~Accepts(st[u], m) THEN Res(st[u], ud[u], <<>>, <<>>)
  ELSE IF m.kind = "command" THEN cmd_start(ud[u])
  ELSE IF st[u] = MENU THEN menu_router(ud[u], Strip(m.text), <<>>, OkOutcomes)
  ELSE add_cat(ud[u], Strip(m.text), o)

\* a user sends an update
Receive ==
  \E u \in Sessions, m \in LoopMsgs :
     /\ Sent < MaxLoopUpdates
     /\ update_queue' = Append(update_queue, [user |-> u, msg |-> m])
     /\ UNCHANGED <<st, ud, catalog, notes, projects, tasks, timelogs, env, lastIn, out,
                    calls, exc, steps, hist, trail, fn_in, fn_out, running>>

\* the application takes the next update once the handler of the one before
\* has returned
Fetch ==
  /\ running = NoHandler
  /\ update_queue # <<>>
  /\ running' = [phase |-> "fetched", user |-> Head(update_queue).user,
                 msg |-> Head(update_queue).msg]
  /\ update_queue' = Tail(update_queue)
  /\ UNCHANGED <<st, ud, catalog, notes, projects, tasks, timelogs, env, lastIn, out,
                 calls, exc, steps, hist, trail, fn_in, fn_out>>

\* a handler that calls no remote store runs to its end
RunLocal ==
  /\ running.phase = "fetched"
  /\ ~MakesCall(st[running.user], running.msg)
  /\ Apply(running.user, running.msg, LoopHandler(running.user, running.msg, "ok"))

\* the handler reaches requests.request: the request is sent, the thread of
\* the event loop waits for the response
SendRequest ==
  /\ running.phase = "fetched"
  /\ MakesCall(st[running.user], running.msg)
  /\ running' = [running EXCEPT !.phase = "outstanding"]
  /\ UNCHANGED <<st, ud, catalog, notes, projects, tasks, timelogs, env, lastIn, out,
                 calls, exc, steps, hist, trail, fn_in, fn_out, update_queue>>

\* the response (or the timeout) arrives and the handler runs to its end
Respond ==
  /\ running.phase = "outstanding"
  /\ \E o \in Outcomes :
       Apply(running.user, running.msg, LoopHandler(running.user, running.msg, o))

NextLoop ==
  \/ Receive
  \/ Fetch
  \/ RunLocal
  \/ SendRequest
  \/ Respond
SpecLoop == InitLoop /\ [][NextLoop]_vars

\* ---- C20
\* C20: while a remote call made for session a is outstanding, the next
\* update, sent by another session b, can be taken up for processing.
C20_OtherSessionsProceed ==
  \A a, b \in Sessions :
     (/\ running.phase = "outstanding"
      /\ running.user = a
      /\ b # a
      /\ update_queue # <<>>
      /\ Head(update_queue).user = b)
       => ENABLED Fetch

\* ------------------------------------------------- resolutions, by request
\* Two sessions resolve categories against the one catalog database, each
\* resolution taken request by request: ensure_node is one create request,
\* ensure_inbox_category a query and, when the query found nothing, a create
\* request.  The requests of the two sessions reach the store in any order.
\* position of a session in ensure_inbox_category
AtRest == "idle"
FoundNone == "found_none"
\* another session stands between its lookup and its create
Between(u) == \E v \in Sessions : v # u /\ fn_in.pc[v] = FoundNone

InitRace ==
  /\ st = [u \in Sessions |-> NO_CONVERSATION]
  /\ ud = [u \in Sessions |-> EmptyDict]
  /\ catalog = <<>>
  /\ notes = <<>>
  /\ projects = <<>>
  /\ tasks = <<>>
  /\ timelogs = <<>>
  /\ env = [tasks_db |-> FALSE, timelog_db |-> FALSE, projects_db |-> FALSE, openai |-> FALSE]
  /\ lastIn = [user |-> "nobody", msg |-> NoMsg]
  /\ out = <<>>
  /\ calls = <<>>
  /\ exc = "none"
  /\ steps = 0
  /\ hist = [u \in Sessions |-> <<>>]
  /\ trail = [u \in Sessions |-> <<>>]
  /\ fn_in = [op |-> "resolve", pc |-> [u \in Sessions |-> AtRest]]
  /\ fn_out = [op |-> "resolve", interleaved |-> FALSE, by_ensure_node |-> {}]
  /\ update_queue = <<>>
  /\ running = NoHandler

\* ensure_node(name, "Category", None): its one request
ResolveNode ==
  \E u \in Sessions, name \in InboxNames :
     /\ fn_in.pc[u] = AtRest
     /\ Len(catalog) < MaxNodes
     /\ catalog' = ensure_node(catalog, name, "Category", None).catalog
     /\ fn_out' = [fn_out EXCEPT !.interleaved = @ \/ Between(u),
                                 !.by_ensure_node = @ \cup {Len(catalog) + 1}]
     /\ UNCHANGED <<st, ud, notes, projects, tasks, timelogs, env, lastIn, out, calls,
                    exc, steps, hist, trail, fn_in, update_queue, running>>

\* the query of ensure_inbox_category: with a result the function returns it
InboxLookup ==
  \E u \in Sessions, order \in Orders(Len(catalog)) :
     /\ fn_in.pc[u] = AtRest
     /\ fn_in' = [fn_in EXCEPT !.pc[u] =
                    IF notion_query(catalog, order, inbox_filter(catalog), 1) # <<>>
                    THEN AtRest ELSE FoundNone]
     /\ fn_out' = [fn_out EXCEPT !.interleaved = @ \/ Between(u)]
     /\ UNCHANGED <<st, ud, catalog, notes, projects, tasks, timelogs, env, lastIn, out,
                    calls, exc, steps, hist, trail, update_queue, running>>

\* the create request of ensure_inbox_category, after a query that found nothing
InboxCreate ==
  \E u \in Sessions :
     /\ fn_in.pc[u] = FoundNone
     /\ Len(catalog) < MaxNodes
     /\ catalog' = ensure_inbox_category(catalog, <<>>).catalog
     /\ fn_in' = [fn_in EXCEPT !.pc[u] = AtRest]
     /\ fn_out' = [fn_out EXCEPT !.interleaved = @ \/ Between(u)]
     /\ UNCHANGED <<st, ud, notes, projects, tasks, timelogs, env, lastIn, out, calls,
                    exc, steps, hist, trail, update_queue, running>>

NextRace ==
  \/ ResolveNode
  \/ InboxLookup
  \/ InboxCreate
SpecRace == InitRace /\ [][NextRace]_vars

\* ---- C21
\* two records of the catalog with the same name, level and parent
Duplicated(cat) ==
  \E i, j \in 1..Len(cat) :
     /\ i < j
     /\ cat[i].name = cat[j].name
     /\ cat[i].level = cat[j].level
     /\ cat[i].parent_id = cat[j].parent_id
\* C21: as long as no request of another session came between the lookup and
\* the create of a resolution, the catalog holds no two nodes of the same
\* name, level and parent.
C21_NoDuplicateWithoutInterleaving ==
  ~fn_out.interleaved => ~Duplicated(catalog)

\* ---- C22
\* the workflow of u began with the menu button t
BeganWith(u, t) ==
  /\ trail[u] # <<>>
  /\ trail[u][1].s = MENU
  /\ trail[u][1].m = TextMsg(t)
\* the capture of u performed no tree selection: the "quick note" or the
\* "note" button led from the menu straight to the collecting state
InboxCapture(u) ==
  /\ BeganWith(u, BTN_QUICK_NOTE) \/ BeganWith(u, BTN_NOTE)
  /\ Len(trail[u]) >= 2
  /\ trail[u][2].s = NOTE_FILES_OR_TEXT
\* the page id is a Category named Inbox with no parent
IsInbox(id) ==
  /\ id \in 1..Len(catalog)
  /\ catalog[id] = CatalogNode(id, INBOX, "Category", None)
\* C22: the note a capture without tree selection commits is related to the
\* Inbox category and to no Subcategory, Topic or Subtopic, whatever the
\* session selected before.
C22_InboxFallback ==
  \A u \in Users :
     (Committed(u) /\ InboxCapture(u))
       => /\ Has(Submitted, "Category")
          /\ IsInbox(Submitted.Category)
          /\ ~Has(Submitted, "Subcategory")
          /\ ~Has(Submitted, "Topic")
          /\ ~Has(Submitted, "Subtopic")
\* a quick note was committed by a session whose earlier descent, left by
\* back-to-menu, had chosen a category and a subcategory
C22_Witness ==
  /\ Committed(U)
  /\ InboxCapture(U)
  /\ BeganWith(U, BTN_QUICK_NOTE)
  /\ Has(ud[U], "L3")
  /\ calls[1].outcome = "ok"
  /\ IsInbox(Submitted.Category)
  /\ Len(notes) = 1

\* ------------------------------------------- the collecting state, limits
\* Fragments that reach the limits of a note: a text longer than half the
\* body, hashtags that differ in case only, hashtags longer than a tag name.
MixedCase == <<"#","A"," ","#","a">>
LimitMsgs ==
  { TextMsg(Body1000), TextMsg(MixedCase), TextMsg(LongTags), TextMsg(DONE) }
CaptureLimits == Collect(LimitMsgs)
NextLimits == CaptureLimits
SpecLimits == InitCapture /\ [][NextLimits]_vars

\* ---- C23
\* the requests of the step that create a note
NoteCreates == {i \in 1..Len(calls) : calls[i].db = "notes" /\ calls[i].op = "create_page"}
\* no capital letter is left in the tag
LowerCased(t) == \A k \in 1..Len(t) : ~(t[k] \in Uppers)
\* the properties of a request that relate the note to a level of the tree
Relations(p) == DOMAIN p \cap {"Category", "Subcategory", "Topic", "Subtopic"}
\* C23: every request that creates a note carries a title of at most 200
\* characters, a text of at most 1800, at most 10 tags, lower-cased and
\* pairwise distinct, and a single node for each level it is related to.
C23_NoteLimits ==
  \A i \in NoteCreates :
     LET p == calls[i].properties
     IN  /\ Len(p.Name) <= NAME_LIMIT
         /\ Len(p.Text) <= BODY_LIMIT
         /\ Len(p.Tags) <= TAG_LIMIT
         /\ \A k \in 1..Len(p.Tags) : LowerCased(p.Tags[k])
         /\ \A j, k \in 1..Len(p.Tags) : p.Tags[j] = p.Tags[k] => j = k
         /\ \A l \in Relations(p) : p[l] \in 1..Len(catalog)

\* ---- C24
\* C24: every state a step of a workflow returns has a registered handler
\* for the next text reply, so that each Build workflow can be driven on to
\* the step that calls ensure_node.
C24_NextStepRegistered ==
  \A u \in Users : st[u] # NO_CONVERSATION => st[u] \in RegisteredStates

\* ---- C25
\* the step that follows a step of a Build or note-capture workflow; MENU
\* after the last one
NextStep(s) ==
  CASE s = ADD_SUB              -> ADD_SUB + 100
    [] s = ADD_TOPIC            -> ADD_TOPIC + 100
    [] s = ADD_TOPIC + 100      -> ADD_TOPIC + 200
    [] s = ADD_SUBTOPIC         -> ADD_SUBTOPIC + 100
    [] s = ADD_SUBTOPIC + 100   -> ADD_SUBTOPIC + 200
    [] s = ADD_SUBTOPIC + 200   -> ADD_SUBTOPIC + 300
    [] s = NOTE_PICK_L1         -> NOTE_PICK_L2
    [] s = NOTE_PICK_L2         -> NOTE_PICK_L3
    [] s = NOTE_PICK_L3         -> NOTE_PICK_L4
    [] s = NOTE_PICK_L4         -> NOTE_FILES_OR_TEXT
    [] OTHER                    -> MENU
WorkflowSteps ==
  { ADD_CAT, ADD_SUB, ADD_SUB + 100, ADD_TOPIC, ADD_TOPIC + 100, ADD_TOPIC + 200,
    ADD_SUBTOPIC, ADD_SUBTOPIC + 100, ADD_SUBTOPIC + 200, ADD_SUBTOPIC + 300,
    NOTE_PICK_L1, NOTE_PICK_L2, NOTE_PICK_L3, NOTE_PICK_L4, NOTE_FILES_OR_TEXT }
\* C25: a step of a Build or note-capture workflow leaves the session at the
\* same step, at the next step or in MENU: no step leads back to an earlier
\* one.
C25_NoStepBack ==
  [][\A u \in Users :
       (Processed /\ lastIn'.user = u /\ st[u] \in WorkflowSteps)
         => st'[u] \in {st[u], NextStep(st[u]), MENU}]_vars
\* a descent that took the category step and the subcategory step, where a
\* subcategory was chosen, and stands at the topic step
C25_Witness ==
  /\ st[U] = NOTE_PICK_L3
  /\ Len(trail[U]) = 3
  /\ trail[U][2].s = NOTE_PICK_L1
  /\ trail[U][3].s = NOTE_PICK_L2
  /\ lastIn.msg # TextMsg(SKIP)
  /\ ud[U]["NOTE_IDS"].sub # None

\* ---- C26
\* the capture of u went through the descent: the "note" button led to the
\* category step
DescentCapture(u) ==
  /\ BeganWith(u, BTN_NOTE)
  /\ Len(trail[u]) >= 2
  /\ trail[u][2].s = NOTE_PICK_L1
\* the reply that closed step s of the workflow of u: the text of the last
\* update taken at s
ClosingReply(u, s) ==
  LET at == {i \in 1..Len(trail[u]) : trail[u][i].s = s}
  IN  Strip(trail[u][CHOOSE i \in at : \A j \in at : j <= i].m.text)
\* the node selected at step s, whose offered list user_data holds under
\* list_key: none when the closing reply is skip, else the offered node the
\* reply names
SelectedAt(u, s, list_key) ==
  LET t       == ClosingReply(u, s)
      offered == ud[u][list_key]
  IN  IF t = SKIP THEN None ELSE offered[first_named(offered, t)].id
\* C26: the relations of the note a descent commits are the nodes selected
\* at the four steps of that descent, and a level that was skipped has none.
C26_RelationsMatchDescent ==
  \A u \in Users :
     (Committed(u) /\ DescentCapture(u))
       => /\ Get(Submitted, "Category", None) = SelectedAt(u, NOTE_PICK_L1, "L1")
          /\ Get(Submitted, "Subcategory", None) = SelectedAt(u, NOTE_PICK_L2, "L2")
          /\ Get(Submitted, "Topic", None) = SelectedAt(u, NOTE_PICK_L3, "L3")
          /\ Get(Submitted, "Subtopic", None) = SelectedAt(u, NOTE_PICK_L4, "L4")

\* --------------------------------------- the collecting state, any fragment
\* Fragments of every kind sent to a capture: a text, a photo, a document and
\* a voice message.
FragmentMsgs ==
  { TextMsg(<<"x">>), PhotoMsg(<<>>, <<"p",".","j","p","g">>),
    DocMsg(<<"d">>, <<"d","o","c">>, <<"f">>), VoiceMsg }
\* the fragments the filter of the collecting state passes to note_files_or_text
CaptureFragment == Collect(FragmentMsgs)
\* a fragment the filter does not pass: no handler runs, nothing is sent
IgnoreFragment ==
  \E u \in Users :
     /\ steps < MaxUpdates
     /\ \E m \in FragmentMsgs :
          /\ ~Accepts(st[u], m)
          /\ Apply(u, m, Res(st[u], ud[u], <<>>, <<>>))
NextFragments ==
  \/ CaptureFragment
  \/ IgnoreFragment
SpecFragments == InitCapture /\ [][NextFragments]_vars

\* ---- C27
\* the step processed a fragment of user u, in the collecting state, that is
\* neither a text nor a photo nor a document
Unrecognised(u) ==
  /\ Processed
  /\ lastIn'.user = u
  /\ st[u] = NOTE_FILES_OR_TEXT
  /\ ~(lastIn'.msg.kind \in {"text", "photo", "document", "command"})
\* C27: a fragment of another kind than text, photo or document is
\* acknowledged with a reply, leaves both buffers as they were and the session
\* in the collecting state.
C27_UnrecognisedAcknowledged ==
  [][\A u \in Users :
       Unrecognised(u)
         => /\ out' # <<>>
            /\ Get(ud'[u], "TEXTBUF", <<>>) = Get(ud[u], "TEXTBUF", <<>>)
            /\ Get(ud'[u], "FILES", <<>>) = Get(ud[u], "FILES", <<>>)
            /\ st'[u] = NOTE_FILES_OR_TEXT]_vars

\* ---- C28
\* the session keys the handler of state s looks up with ctx.user_data[key] on
\* a text t other than the back button
ReadKeys(s, t) ==
  CASE s = ADD_SUB + 100        -> {"PARENT"}
    [] s = ADD_TOPIC + 100      -> {"PARENT"}
    [] s = ADD_TOPIC + 200      -> {"PARENT_FINAL"}
    [] s = ADD_SUBTOPIC + 300   -> {"PARENT_FINAL"}
    [] s = NOTE_PICK_L2         -> {"NOTE_IDS"}
    [] s = NOTE_PICK_L3         -> {"NOTE_IDS"}
    [] s = NOTE_PICK_L4         -> IF t # SKIP THEN {"NOTE_IDS"} ELSE {}
    [] s = TASK_ADD_PROJECT     -> {"TASK_TITLE", "TASK_DUE"}
    [] s = TIME_ADD_NOTE        -> {"TIME_PROJECT", "TIME_MIN"}
    [] OTHER                    -> {}
\* the step of the workflow of state s whose handler assigns the key
WriterStep(k, s) ==
  CASE k = "PARENT" /\ s = ADD_SUB + 100  -> ADD_SUB
    [] k = "PARENT"                       -> ADD_TOPIC
    [] k = "PARENT_FINAL" /\ s = ADD_TOPIC + 200 -> ADD_TOPIC + 100
    [] k = "PARENT_FINAL"                 -> ADD_SUBTOPIC + 200
    [] k = "NOTE_IDS"                     -> NOTE_PICK_L1
    [] k = "TASK_TITLE"                   -> TASK_ADD_TITLE
    [] k = "TASK_DUE"                     -> TASK_ADD_DUE
    [] k = "TIME_PROJECT"                 -> TIME_ADD_PROJECT
    [] OTHER                              -> TIME_ADD_MINUTES
\* the value of key k is the one the step that took message m assigned
AssignedFrom(d, k, m) ==
  CASE k \in {"TASK_TITLE", "TIME_PROJECT"} -> d[k] = TextOf(m)
    [] k = "PARENT"                         -> d[k].name = TextOf(m)
    [] OTHER                                -> TRUE
\* key k of the session of u was assigned by a step of the workflow the
\* session is in, which began at the menu
WrittenInWorkflow(u, k) ==
  /\ Has(ud[u], k)
  /\ trail[u] # <<>>
  /\ trail[u][1].s = MENU
  /\ \E i \in 2..Len(trail[u]) :
        /\ trail[u][i].s = WriterStep(k, st[u])
        /\ AssignedFrom(ud[u], k, trail[u][i].m)
\* C28: whenever a handler looks a session key up directly, the key is in
\* the session and an earlier step of the same workflow assigned it.
C28_NoMissingRead ==
  [][\A u \in Users :
       (/\ Processed
        /\ lastIn'.user = u
        /\ lastIn'.msg.kind = "text"
        /\ TextOf(lastIn'.msg) # BACK)
         => \A k \in ReadKeys(st[u], TextOf(lastIn'.msg)) : WrittenInWorkflow(u, k)]_vars
\* C28 (witness): a task was created from the title and the deadline of its
\* own workflow, in a session that still holds the NOTE_IDS of a note capture
\* left earlier with the back button.
C28_Witness ==
  /\ st[U] = MENU
  /\ lastIn.user = U
  /\ Len(tasks) = 1
  /\ trail[U][Len(trail[U])].s = TASK_ADD_PROJECT
  /\ Has(ud[U], "NOTE_IDS")
  /\ ud[U]["TASK_TITLE"] = tasks[1].Name

\* ---- C29
\* what processing the done signal of the capture of u does, for every answer
\* of the AI collaborator and every outcome of the requests of create_note
CommitResults(u) ==
  {commit_note(ud[u], answer, os) :
     answer \in CollectAnswers(TextMsg(DONE)), os \in AnyOutcomes3}
\* the user is told the save failed, and no request went beyond the creation
FailedAtCreation(r) ==
  /\ r.out = <<Reply("save_failed", kb_main)>>
  /\ \A i \in 1..Len(r.calls) : r.calls[i].op = "create_page"
\* C29: with a store that creates no record for a creation request it answers
\* with an error, processing the done signal of a collecting session adds at
\* most one note record, whether the first request or the retry created it,
\* and none when the user is told that the save failed at the creation.
C29_AtMostOneNote ==
  \A u \in Users :
     st[u] = NOTE_FILES_OR_TEXT
       => \A r \in CommitResults(u) :
             /\ Len(r.notes) \in {Len(notes), Len(notes) + 1}
             /\ SubSeq(r.notes, 1, Len(notes)) = notes
             /\ FailedAtCreation(r) => r.notes = notes
\* C29 (witness): a capture with a text and a file was committed on the
\* fallback path: the first creation was rejected, the retry created the one
\* record the notes database holds.
C29_Witness ==
  /\ Committed(U)
  /\ Degraded
  /\ calls[2].outcome = "ok"
  /\ calls[1].children # <<>>
  /\ SubmittedFiles # <<>>
  /\ Len(notes) = 1
  /\ notes[1].properties = calls[2].properties

\* ------------------------------------------------ the descent of a capture
\* A catalog the Build workflows make: category a, subcategory b of a, topic c
\* of b, and topic e created straight under a (add_topic_next with skip).
BranchingCatalog ==
  << CatalogNode(1, <<"a">>, "Category", None),
     CatalogNode(2, <<"b">>, "Subcategory", 1),
     CatalogNode(3, <<"c">>, "Topic", 2),
     CatalogNode(4, <<"e">>, "Topic", 1) >>
InitDescent ==
  /\ st = [u \in Users |-> NO_CONVERSATION]
  /\ ud = [u \in Users |-> EmptyDict]
  /\ catalog = BranchingCatalog
  /\ notes = <<>>
  /\ projects = <<>>
  /\ tasks = <<>>
  /\ timelogs = <<>>
  /\ env = [tasks_db |-> FALSE, timelog_db |-> FALSE, projects_db |-> FALSE,
            openai |-> FALSE]
  /\ lastIn = [user |-> "nobody", msg |-> NoMsg]
  /\ out = <<>>
  /\ calls = <<>>
  /\ exc = "none"
  /\ steps = 0
  /\ hist = [u \in Users |-> <<>>]
  /\ trail = [u \in Users |-> <<>>]
  /\ fn_in = Idle
  /\ update_queue = <<>>
  /\ running = NoHandler
  /\ fn_out = Idle
\* the "note" button of the menu
MenuNote ==
  \E u \in Users :
     /\ InState(u, MENU)
     /\ \E order \in MenuOrders(BTN_NOTE), os \in MenuOutcomes(BTN_NOTE) :
          Apply(u, TextMsg(BTN_NOTE), menu_router(ud[u], BTN_NOTE, order, os))
NextDescent ==
  \/ CmdStart
  \/ MenuNote
  \/ NotePickL1
  \/ NotePickL2
  \/ NotePickL3
  \/ NotePickL4
SpecDescent == InitDescent /\ [][NextDescent]_vars

\* ---- C30
\* the session of u is in a descent: at one of its four steps, or collecting
\* after it
InDescent(u) ==
  /\ DescentCapture(u)
  /\ st[u] \in {NOTE_PICK_L2, NOTE_PICK_L3, NOTE_PICK_L4, NOTE_FILES_OR_TEXT}
\* the node of level l the session holds as chosen, None when it holds none
Chosen(u, l) == Get(ud[u]["NOTE_IDS"], l, None)
\* node id is a record of the catalog, of level lv, whose parent is node p
ChildAt(id, lv, p) ==
  /\ id \in 1..Len(catalog)
  /\ catalog[id].level = lv
  /\ catalog[id].parent_id = p
\* the deepest node chosen above the subtopic
DeepestAbove(u) ==
  IF Chosen(u, "topic") # None THEN Chosen(u, "topic")
  ELSE IF Chosen(u, "sub") # None THEN Chosen(u, "sub")
  ELSE Chosen(u, "cat")
\* C30: at every point of a descent the chosen nodes are a chain of the
\* catalog: the subcategory is a child of the category, the topic a child of
\* the subcategory (of the category when there is none), the subtopic a child
\* of the deepest node chosen before it, and each has the level of its step.
C30_PathConsistency ==
  \A u \in Users :
     InDescent(u)
       => /\ ChildAt(Chosen(u, "cat"), "Category", None)
          /\ Chosen(u, "sub") # None
               => ChildAt(Chosen(u, "sub"), "Subcategory", Chosen(u, "cat"))
          /\ Chosen(u, "topic") # None
               => ChildAt(Chosen(u, "topic"), "Topic",
                          IF Chosen(u, "sub") # None THEN Chosen(u, "sub")
                          ELSE Chosen(u, "cat"))
          /\ Chosen(u, "subtopic") # None
               => ChildAt(Chosen(u, "subtopic"), "Subtopic", DeepestAbove(u))

\* ------------------------------------------------- selection among names
\* A catalog the Build workflows make: the category a built twice, under the
\* first one the subcategory b built twice and a subcategory that was given
\* the text of the skip label as its name (add_sub_name takes any name but the
\* back label).
TwinCatalog ==
  << CatalogNode(1, <<"a">>, "Category", None),
     CatalogNode(2, <<"a">>, "Category", None),
     CatalogNode(3, <<"b">>, "Subcategory", 1),
     CatalogNode(4, <<"b">>, "Subcategory", 1),
     CatalogNode(5, SKIP, "Subcategory", 1) >>
InitSelect ==
  /\ st = [u \in Users |-> NO_CONVERSATION]
  /\ ud = [u \in Users |-> EmptyDict]
  /\ catalog = TwinCatalog
  /\ notes = <<>>
  /\ projects = <<>>
  /\ tasks = <<>>
  /\ timelogs = <<>>
  /\ env = [tasks_db |-> FALSE, timelog_db |-> FALSE, projects_db |-> FALSE,
            openai |-> FALSE]
  /\ lastIn = [user |-> "nobody", msg |-> NoMsg]
  /\ out = <<>>
  /\ calls = <<>>
  /\ exc = "none"
  /\ steps = 0
  /\ hist = [u \in Users |-> <<>>]
  /\ trail = [u \in Users |-> <<>>]
  /\ fn_in = Idle
  /\ update_queue = <<>>
  /\ running = NoHandler
  /\ fn_out = Idle
\* the "subcategory" and "topic" buttons of the menu
MenuBuild ==
  \E u \in Users :
     /\ InState(u, MENU)
     /\ \E t \in {BTN_SUBCATEGORY, BTN_TOPIC} :
        \E order \in MenuOrders(t), os \in MenuOutcomes(t) :
          Apply(u, TextMsg(t), menu_router(ud[u], t, order, os))
NextSelect ==
  \/ CmdStart
  \/ MenuBuild
  \/ MenuNote
  \/ AddSub
  \/ AddTopic
  \/ AddTopicNext
  \/ NotePickL1
  \/ NotePickL2
  \/ NotePickL3
  \/ NotePickL4
SpecSelect == InitSelect /\ [][NextSelect]_vars

\* ---- C31
\* the id of the node the handler of selection step s left as selected in
\* the user_data d, None when it left none
SelectedBy(s, d) ==
  CASE s \in {ADD_SUB, ADD_TOPIC} ->
         IF Has(d, "PARENT") THEN d["PARENT"].id ELSE None
    [] s = ADD_TOPIC + 100 ->
         IF Has(d, "PARENT_FINAL") THEN d["PARENT_FINAL"].id ELSE None
    [] s = ADD_SUBTOPIC ->
         IF Has(d, "CHAIN") /\ Has(d["CHAIN"], "cat") THEN d["CHAIN"]["cat"].id ELSE None
    [] s = ADD_SUBTOPIC + 100 ->
         IF Has(d, "CHAIN") /\ Has(d["CHAIN"], "sub") THEN d["CHAIN"]["sub"].id ELSE None
    [] s = NOTE_PICK_L1 -> Get(Get(d, "NOTE_IDS", EmptyDict), "cat", None)
    [] s = NOTE_PICK_L2 -> Get(Get(d, "NOTE_IDS", EmptyDict), "sub", None)
    [] s = NOTE_PICK_L3 -> Get(Get(d, "NOTE_IDS", EmptyDict), "topic", None)
    [] OTHER            -> Get(Get(d, "NOTE_IDS", EmptyDict), "subtopic", None)
\* the list offered to u at the selection step it is in
Offered(u) == Get(ud[u], OfferedKey(st[u]), <<>>)
\* the step ran, to its end, the handler of a selection step of u on a reply
\* equal to a name of the list offered at that step
NamedReply(u) ==
  /\ Processed
  /\ lastIn'.user = u
  /\ lastIn'.msg.kind = "text"
  /\ st[u] \in SelectionSteps
  /\ exc' = "none"
  /\ TextOf(lastIn'.msg) \in Range(Names(Offered(u)))
\* the position in the list of the first node that bears the name t
FirstBearing(list, t) ==
  CHOOSE k \in 1..Len(list) :
     list[k].name = t /\ \A j \in 1..(k - 1) : list[j].name # t
\* C31: at every selection step a reply equal to an offered name selects the
\* first node of that name in the offered list, and so never a later node of
\* the list that bears the same name.
C31_FirstOfEqualNames ==
  [][\A u \in Users :
       NamedReply(u)
         => LET t == TextOf(lastIn'.msg)
                i == FirstBearing(Offered(u), t)
            IN  /\ SelectedBy(st[u], ud'[u]) = Offered(u)[i].id
                /\ \A j \in (i + 1)..Len(Offered(u)) :
                      Offered(u)[j].name = t
                        => SelectedBy(st[u], ud'[u]) # Offered(u)[j].id]_vars

=============================================================================
